---------------------------- MODULE Spec2Model ----------------------------
(***************************************************************************)
(* A model of the CBOR codec of whyrusleeping/cbor (go/encoder.go,         *)
(* go/decoder.go, constants of go/cbor.go).                                *)
(*                                                                         *)
(* Bytes are the integers 0..255.  A uint64 is its eight bytes, most       *)
(* significant first; an int64 is the eight bytes of its two's complement. *)
(* A Go value is a record [t, n, e, m]: t its type, n its number or its    *)
(* bytes, e its elements (slice, array, struct fields, pointee, dynamic    *)
(* value of an interface), m the entries of a map as a set of <<key,       *)
(* value>> pairs.                                                          *)
(***************************************************************************)
EXTENDS Integers, Sequences, FiniteSets, TLC

(***************************************************************************)
(* Bounds of the model.                                                    *)
(***************************************************************************)
MaxStream == 2
MaxWire == 3
MaxBad == 3

(***************************************************************************)
(* Constants of go/cbor.go.                                                *)
(***************************************************************************)
cborUint == 0
cborNegint == 32
cborBytes == 64
cborText == 96
cborArray == 128
cborMap == 160
cborTag == 192
cbor7 == 224
cborFalse == 20
cborTrue == 21
cborNull == 22
int8Follows == 24
int16Follows == 25
int32Follows == 26
int64Follows == 27
varFollows == 31
tagBignum == 2
tagNegBignum == 3
tagDecimal == 4
tagBigfloat == 5

(* c & typeMask, c & infoBits *)
TypeOfByte(c) == (c \div 32) * 32
InfoOfByte(c) == c % 32

(***************************************************************************)
(* Unsigned and signed 64-bit numbers as eight bytes.                      *)
(***************************************************************************)
Zero8 == <<0, 0, 0, 0, 0, 0, 0, 0>>
Ones8 == <<255, 255, 255, 255, 255, 255, 255, 255>>

(* the uint64 of a natural below 2^31 *)
U(x) == <<0, 0, 0, 0, x \div 16777216, (x \div 65536) % 256, (x \div 256) % 256, x % 256>>

(* the uint64 whose low bytes are s (big-endian, zero extended) *)
PadByte(s, i) == IF i + Len(s) > 8 THEN s[i + Len(s) - 8] ELSE 0
Pad8(s) == <<PadByte(s, 1), PadByte(s, 2), PadByte(s, 3), PadByte(s, 4),
             PadByte(s, 5), PadByte(s, 6), PadByte(s, 7), PadByte(s, 8)>>

(* x < y on uint64 *)
LtU64(x, y) == \E i \in 1..8 : x[i] < y[i] /\ \A j \in 1..(i - 1) : x[j] = y[j]

(* ^x : the complement, which is uint64(-1-x) for an int64 x and -1-int64(u) *)
NotU64(x) == <<255 - x[1], 255 - x[2], 255 - x[3], 255 - x[4],
               255 - x[5], 255 - x[6], 255 - x[7], 255 - x[8]>>

Pow63 == <<128, 0, 0, 0, 0, 0, 0, 0>>
MaxInt64 == <<127, 255, 255, 255, 255, 255, 255, 255>>
Pow32 == <<0, 0, 0, 1, 0, 0, 0, 0>>
MaxUint32 == <<0, 0, 0, 0, 255, 255, 255, 255>>

(* an int64 is negative when its top bit is set *)
IsNeg64(x) == x[1] >= 128

(* the int64 of a small integer -2^31 < x < 2^31 *)
I(x) == IF x >= 0 THEN U(x) ELSE NotU64(U(-1 - x))

(* bytes.Compare(a, b) < 0 *)
BytesLess(a, b) ==
    \/ \E i \in 1..Len(a) : /\ i <= Len(b)
                            /\ a[i] < b[i]
                            /\ \A j \in 1..(i - 1) : a[j] = b[j]
    \/ Len(a) < Len(b) /\ \A j \in 1..Len(a) : a[j] = b[j]

(***************************************************************************)
(* Go types (reflect.Type): k the kind, el the element types (slice,       *)
(* array, pointer: one; map: key and value; struct: one per field), nm the *)
(* field names of a struct, ln the length of an array.                     *)
(***************************************************************************)
Ty(k) == [k |-> k, el |-> <<>>, nm |-> <<>>, ln |-> 0]
TSlice(t) == [k |-> "slice", el |-> <<t>>, nm |-> <<>>, ln |-> 0]
TArray(n, t) == [k |-> "array", el |-> <<t>>, nm |-> <<>>, ln |-> n]
TPtr(t) == [k |-> "ptr", el |-> <<t>>, nm |-> <<>>, ln |-> 0]
TMap(kt, vt) == [k |-> "map", el |-> <<kt, vt>>, nm |-> <<>>, ln |-> 0]
TStruct(names, types) == [k |-> "struct", el |-> types, nm |-> names, ln |-> 0]
TIface == Ty("interface")
TBytes == TSlice(Ty("uint8"))
TBigInt == [k |-> "struct", el |-> <<>>, nm |-> <<>>, ln |-> 1]
TInt == Ty("int")
TString == Ty("string")

IntKinds == {"int", "int8", "int16", "int32", "int64"}
UintKinds == {"uint", "uint8", "uint16", "uint32", "uint64"}
FloatKinds == {"float32", "float64"}

(* the bit size of an integer kind; int and uint are 64 bits wide *)
BitSize(k) ==
    CASE k \in {"int8", "uint8"} -> 8
      [] k \in {"int16", "uint16"} -> 16
      [] k \in {"int32", "uint32", "float32"} -> 32
      [] OTHER -> 64

(***************************************************************************)
(* Go values.                                                              *)
(***************************************************************************)
Val(t, n, e, m) == [t |-> t, n |-> n, e |-> e, m |-> m]
Num(k, n) == Val(Ty(k), n, <<>>, {})
Bool(b) == Val(Ty("bool"), IF b THEN <<1>> ELSE <<0>>, <<>>, {})
Str(s) == Val(Ty("string"), s, <<>>, {})
Bytes(s) == Val(TBytes, s, <<>>, {})
Slice(t, elems) == Val(TSlice(t), <<>>, elems, {})
Map(kt, vt, entries) == Val(TMap(kt, vt), <<>>, <<>>, entries)
Ptr(t, pointee) == Val(TPtr(t), <<>>, pointee, {})
Iface(dyn) == Val(TIface, <<>>, dyn, {})
NilIface == Iface(<<>>)

(* reflect.Zero(t) *)
RECURSIVE ZeroOf(_), ZeroSeq(_, _), ZeroRep(_, _)
ZeroOf(t) ==
    CASE t.k \in IntKinds \cup UintKinds \cup FloatKinds -> Val(t, Zero8, <<>>, {})
      [] t.k = "bool" -> Val(t, <<0>>, <<>>, {})
      [] t.k = "array" -> Val(t, <<>>, ZeroRep(t.el[1], t.ln), {})
      [] t.k = "struct" -> Val(t, <<>>, ZeroSeq(t.el, Len(t.el)), {})
      [] OTHER -> Val(t, <<>>, <<>>, {})
ZeroSeq(ts, i) == IF i = 0 THEN <<>> ELSE Append(ZeroSeq(ts, i - 1), ZeroOf(ts[i]))
ZeroRep(t, i) == IF i = 0 THEN <<>> ELSE Append(ZeroRep(t, i - 1), ZeroOf(t))

IsNilVal(v) == v.t.k \in {"ptr", "interface"} /\ v.e = <<>>
MapKeys(v) == {p[1] : p \in v.m}
MapIndex(v, key) == (CHOOSE p \in v.m : p[1] = key)[2]

(***************************************************************************)
(* Record field names (fieldname is called by encoder.go and decoder.go;   *)
(* its rules are those of the specification's section 4.4).  A field       *)
(* descriptor is [name, cbor, json]: the declared name and the two         *)
(* metadata entries, each <<>> when absent and <<text>> when present.      *)
(***************************************************************************)
Field(name) == [name |-> name, cbor |-> <<>>, json |-> <<>>]

RECURSIVE FirstToken(_)
FirstToken(s) ==
    IF s = <<>> \/ s[1] = 44 THEN <<>> ELSE <<s[1]>> \o FirstToken(Tail(s))

IsExported(sf) == sf.name # <<>> /\ sf.name[1] \in 65..90

fieldTagName(sf, entry) ==
    LET tok == FirstToken(entry[1])
    IN  IF tok = <<45>> THEN [name |-> <<>>, ok |-> FALSE]
        ELSE IF tok = <<>> THEN [name |-> sf.name, ok |-> TRUE]
        ELSE [name |-> tok, ok |-> TRUE]

fieldname(sf) ==
    IF ~IsExported(sf) THEN [name |-> <<>>, ok |-> FALSE]
    ELSE IF sf.cbor # <<>> THEN fieldTagName(sf, sf.cbor)
    ELSE IF sf.json # <<>> THEN fieldTagName(sf, sf.json)
    ELSE [name |-> sf.name, ok |-> TRUE]

(***************************************************************************)
(* The encoder (go/encoder.go).  A writer w is [out, nw, bad, err]: the    *)
(* bytes written, the number of Write calls made, the indices of the Write *)
(* calls the stream rejects, and the error of the last call.               *)
(***************************************************************************)
NewWriter(bad) == [out |-> <<>>, nw |-> 0, bad |-> bad, err |-> "nil"]

(* enc.out.Write(b) *)
Write(w, b) ==
    IF (w.nw + 1) \in w.bad
    THEN [w EXCEPT !.nw = @ + 1, !.err = "err"]
    ELSE [w EXCEPT !.nw = @ + 1, !.out = @ \o b, !.err = "nil"]

Returns(w, err) == [w EXCEPT !.err = err]

tagAux64(w, tag, x) == Write(w, <<tag + int64Follows>> \o x)

tagAuxOut(w, tag, x) ==
    IF ~LtU64(U(23), x) THEN Write(w, <<tag + x[8]>>)
    ELSE IF LtU64(x, U(255)) THEN Write(w, <<tag + int8Follows, x[8]>>)
    ELSE IF LtU64(x, U(65535)) THEN Write(w, <<tag + int16Follows, x[7], x[8]>>)
    ELSE IF LtU64(x, <<0, 0, 0, 0, 255, 255, 255, 255>>)
         THEN Write(w, <<tag + int32Follows, x[5], x[6], x[7], x[8]>>)
    ELSE tagAux64(w, tag, x)

writeInt(w, x) ==
    IF IsNeg64(x) THEN tagAuxOut(w, cborNegint, NotU64(x))
    ELSE tagAuxOut(w, cborUint, x)

(* the error of the header's write is dropped *)
writeText(w, x) == Write(tagAuxOut(w, cborText, U(Len(x))), x)

writeBytes(w, x) == Write(tagAuxOut(w, cborBytes, U(Len(x))), x)

writeFloat(w, x) == tagAux64(w, cbor7, x)

writeBool(w, x) ==
    IF x THEN tagAuxOut(w, cbor7, U(cborTrue)) ELSE tagAuxOut(w, cbor7, U(cborFalse))

keyBytesFromEncoded(data) ==
    LET cborInfo == InfoOfByte(data[1])
    IN  IF cborInfo <= 23 THEN SubSeq(data, 2, Len(data))
        ELSE IF cborInfo = int8Follows THEN SubSeq(data, 3, Len(data))
        ELSE IF cborInfo = int16Follows THEN SubSeq(data, 4, Len(data))
        ELSE IF cborInfo = int32Follows THEN SubSeq(data, 6, Len(data))
        ELSE SubSeq(data, 10, Len(data))

(* a comparison that leaves out the lengths of the payloads *)
LessBytewiseOnly(ei, ej) ==
    BytesLess(keyBytesFromEncoded(ei.val), keyBytesFromEncoded(ej.val))

(* cborKeySorter.Less on two entries [val, key] *)
Less(ei, ej) ==
    LET a == keyBytesFromEncoded(ei.val)
        b == keyBytesFromEncoded(ej.val)
    IN  IF Len(a) < Len(b) THEN TRUE
        ELSE IF Len(a) > Len(b) THEN FALSE
        ELSE BytesLess(a, b)

(* sort.Sort on fewer than 12 entries is an insertion sort: each entry is  *)
(* swapped towards the front while it is Less than its left neighbour.     *)
RECURSIVE SortInsert(_, _)
SortInsert(sorted, x) ==
    IF sorted # <<>> /\ Less(x, sorted[Len(sorted)])
    THEN Append(SortInsert(SubSeq(sorted, 1, Len(sorted) - 1), x), sorted[Len(sorted)])
    ELSE Append(sorted, x)

RECURSIVE SortKeys(_)
SortKeys(entries) ==
    IF entries = <<>> THEN <<>>
    ELSE SortInsert(SortKeys(SubSeq(entries, 1, Len(entries) - 1)), entries[Len(entries)])

(* rv.MapKeys(): the keys in the order the runtime enumerates them, which  *)
(* is the order ord lists them in; ord is any listing of the keys.         *)
RECURSIVE EnumKeys(_, _)
EnumKeys(keys, ord) ==
    IF ord = <<>> THEN <<>>
    ELSE IF ord[1] \in keys THEN <<ord[1]>> \o EnumKeys(keys, Tail(ord))
    ELSE EnumKeys(keys, Tail(ord))

RECURSIVE Encode(_, _, _), writeReflection(_, _, _), writeElems(_, _, _, _),
          encodeKeys(_, _), writeEntries(_, _, _, _, _), writeFields(_, _, _, _)

Encode(w, ob, ord) ==
    IF ob = NilIface THEN tagAuxOut(w, cbor7, U(cborNull))
    ELSE IF ob.t = TBigInt THEN Returns(w, "err")
    ELSE writeReflection(w, ob, ord)

(* the loop over the elements of a slice or array, from element i *)
writeElems(w, rv, i, ord) ==
    IF i > Len(rv.e) THEN Returns(w, "nil")
    ELSE LET r == writeReflection(w, rv.e[i], ord)
         IN  IF r.err # "nil" THEN r ELSE writeElems(r, rv, i + 1, ord)

(* the loop that encodes each key into its own buffer: [err, entries] *)
encodeKeys(keys, ord) ==
    IF keys = <<>> THEN [err |-> "nil", entries |-> <<>>]
    ELSE LET r == writeReflection(NewWriter({}), keys[1], ord)
             rest == encodeKeys(Tail(keys), ord)
         IN  IF r.err # "nil" THEN [err |-> r.err, entries |-> <<>>]
             ELSE IF rest.err # "nil" THEN rest
             ELSE [err |-> "nil",
                   entries |-> <<[val |-> r.out, key |-> keys[1]]>> \o rest.entries]

(* the loop over the sorted entries, from entry i *)
writeEntries(w, rv, encKeys, i, ord) ==
    IF i > Len(encKeys) THEN Returns(w, "nil")
    ELSE LET k == Write(w, encKeys[i].val)
         IN  IF k.err # "nil" THEN k
             ELSE LET r == writeReflection(k, MapIndex(rv, encKeys[i].key), ord)
                  IN  IF r.err # "nil" THEN r
                      ELSE writeEntries(r, rv, encKeys, i + 1, ord)

(* the loop over the fields of a struct, from field i *)
writeFields(w, rv, i, ord) ==
    IF i > Len(rv.e) THEN Returns(w, "nil")
    ELSE LET fn == fieldname(rv.t.nm[i])
         IN  IF ~fn.ok THEN writeFields(w, rv, i + 1, ord)
             ELSE LET k == writeText(w, fn.name)
                  IN  IF k.err # "nil" THEN k
                      ELSE LET r == writeReflection(k, rv.e[i], ord)
                           IN  IF r.err # "nil" THEN r
                               ELSE writeFields(r, rv, i + 1, ord)

writeReflection(w, rv, ord) ==
    CASE rv.t.k \in IntKinds -> writeInt(w, rv.n)
      [] rv.t.k \in UintKinds -> tagAuxOut(w, cborUint, rv.n)
      [] rv.t.k \in FloatKinds -> writeFloat(w, rv.n)
      [] rv.t.k = "bool" -> writeBool(w, rv.n = <<1>>)
      [] rv.t.k = "string" -> writeText(w, rv.n)
      [] rv.t.k \in {"slice", "array"} ->
            IF rv.t.el[1].k = "uint8"
            THEN IF rv.t.k = "array" THEN Returns(w, "panic") ELSE writeBytes(w, rv.n)
            ELSE writeElems(tagAuxOut(w, cborArray, U(Len(rv.e))), rv, 1, ord)
      [] rv.t.k = "map" ->
            LET h == tagAuxOut(w, cborMap, U(Cardinality(rv.m)))
            IN  IF h.err # "nil" THEN h
                ELSE LET ks == encodeKeys(EnumKeys(MapKeys(rv), ord), ord)
                     IN  IF ks.err # "nil" THEN Returns(h, ks.err)
                         ELSE writeEntries(h, rv, SortKeys(ks.entries), 1, ord)
      [] rv.t.k = "struct" ->
            LET usable == {i \in 1..Len(rv.t.nm) : fieldname(rv.t.nm[i]).ok}
                h == tagAuxOut(w, cborMap, U(Cardinality(usable)))
            IN  IF h.err # "nil" THEN h ELSE writeFields(h, rv, 1, ord)
      [] rv.t.k = "interface" ->
            IF rv.e = <<>> THEN Encode(w, NilIface, ord) ELSE Encode(w, rv.e[1], ord)
      [] rv.t.k = "ptr" ->
            IF rv.e = <<>> THEN tagAuxOut(w, cbor7, U(cborNull))
            ELSE writeReflection(w, rv.e[1], ord)
      [] OTHER -> Returns(w, "err")

(***************************************************************************)
(* reflect.Value.  A Value rv is [mode, x]: x is the content of the        *)
(* location rv designates and mode says how rv designates it:              *)
(*   "ptr"  rv is a non-nil pointer to the location (reflect.ValueOf(&x),  *)
(*          reflect.New): of kind Ptr, not settable;                       *)
(*   "set"  rv is the location itself, addressable and settable (a struct  *)
(*          field, an array element, what reflect.Indirect returns);       *)
(*   "ro"   rv is a copy of x, not settable (reflect.ValueOf(x));          *)
(*   "zero" rv is the zero Value, of kind Invalid.                         *)
(* Every operation on rv returns the new content of its location.          *)
(***************************************************************************)
RvPtr(x) == [mode |-> "ptr", x |-> x]
RvSet(x) == [mode |-> "set", x |-> x]
RvRo(x) == [mode |-> "ro", x |-> x]
RvZero == [mode |-> "zero", x |-> NilIface]

Kind(rv) ==
    CASE rv.mode = "ptr" -> "ptr"
      [] rv.mode = "zero" -> "invalid"
      [] OTHER -> rv.x.t.k

CanSet(rv) == rv.mode = "set"

IsNil(rv) == rv.mode \in {"set", "ro"} /\ IsNilVal(rv.x)

(* reflect.Indirect(rv) *)
Indirect(rv) ==
    IF Kind(rv) # "ptr" THEN rv
    ELSE IF rv.mode = "ptr" THEN RvSet(rv.x)
    ELSE IF rv.x.e = <<>> THEN RvZero
    ELSE RvSet(rv.x.e[1])

(* the content of rv's location once the location of Indirect(rv) holds y *)
Outer(rv, y) ==
    IF Kind(rv) # "ptr" \/ rv.mode = "ptr" THEN y
    ELSE IF rv.x.e = <<>> THEN rv.x
    ELSE [rv.x EXCEPT !.e = <<y>>]

Ok(x) == [err |-> "nil", val |-> x]
Fail(err, x) == [err |-> err, val |-> x]

(* rv.Set(v): panics unless rv is settable and v's type is assignable *)
Set(rv, v) ==
    IF rv.mode # "set" THEN Fail("panic", rv.x)
    ELSE IF rv.x.t.k = "interface" THEN Ok(Iface(<<v>>))
    ELSE IF rv.x.t = v.t THEN Ok(v)
    ELSE Fail("panic", rv.x)

(* rv.SetUint, rv.SetInt, rv.SetBytes, ...: panics unless rv is settable *)
Store(rv, v) == IF rv.mode # "set" THEN Fail("panic", rv.x) ELSE Ok(v)

(* rv.OverflowUint(u), rv.OverflowInt(x) for a target of kind k *)
HighBytes(k) == 8 - BitSize(k) \div 8
OverflowUint(k, u) == \E i \in 1..HighBytes(k) : u[i] # 0
OverflowInt(k, x) ==
    LET h == HighBytes(k)
    IN  /\ h > 0
        /\ ~ \/ (\A i \in 1..h : x[i] = 0) /\ x[h + 1] < 128
             \/ (\A i \in 1..h : x[i] = 255) /\ x[h + 1] >= 128

(***************************************************************************)
(* big.Int: n holds the sign (1 when negative) followed by the magnitude,  *)
(* most significant byte first, without leading zero bytes.                *)
(***************************************************************************)
RECURSIVE Normalize(_)
Normalize(mag) == IF mag # <<>> /\ mag[1] = 0 THEN Normalize(Tail(mag)) ELSE mag

(* mag + 1 *)
RECURSIVE Inc(_)
Inc(mag) ==
    IF mag = <<>> THEN <<1>>
    ELSE IF mag[Len(mag)] < 255 THEN [mag EXCEPT ![Len(mag)] = @ + 1]
    ELSE Append(Inc(SubSeq(mag, 1, Len(mag) - 1)), 0)

BigInt(neg, mag) ==
    LET m == Normalize(mag)
    IN  Val(TBigInt, <<IF neg /\ m # <<>> THEN 1 ELSE 0>> \o m, <<>>, {})
BigNeg(x) == x.n[1] = 1
BigMag(x) == Tail(x.n)

(* bnOut.Sub(minusOne, bn) for bn >= 0 *)
MinusOneMinus(mag) == BigInt(TRUE, Inc(Normalize(mag)))

(* x.BitLen() *)
RECURSIVE Bits(_)
Bits(x) == IF x = 0 THEN 0 ELSE 1 + Bits(x \div 2)
BitLen(x) == IF BigMag(x) = <<>> THEN 0 ELSE 8 * (Len(BigMag(x)) - 1) + Bits(BigMag(x)[1])

(* x.Int64(): the low 64 bits of the magnitude, negated when x is negative *)
Low8(mag) == Pad8(IF Len(mag) > 8 THEN SubSeq(mag, Len(mag) - 7, Len(mag)) ELSE mag)
Dec8(x) ==
    LET i == CHOOSE i \in 1..8 : x[i] # 0 /\ \A j \in (i + 1)..8 : x[j] = 0
    IN  IF x = Zero8 THEN Ones8
        ELSE <<IF 1 < i THEN x[1] ELSE IF 1 = i THEN x[1] - 1 ELSE 255,
               IF 2 < i THEN x[2] ELSE IF 2 = i THEN x[2] - 1 ELSE 255,
               IF 3 < i THEN x[3] ELSE IF 3 = i THEN x[3] - 1 ELSE 255,
               IF 4 < i THEN x[4] ELSE IF 4 = i THEN x[4] - 1 ELSE 255,
               IF 5 < i THEN x[5] ELSE IF 5 = i THEN x[5] - 1 ELSE 255,
               IF 6 < i THEN x[6] ELSE IF 6 = i THEN x[6] - 1 ELSE 255,
               IF 7 < i THEN x[7] ELSE IF 7 = i THEN x[7] - 1 ELSE 255,
               IF 8 < i THEN x[8] ELSE IF 8 = i THEN x[8] - 1 ELSE 255>>
BigInt64(x) == IF BigNeg(x) THEN NotU64(Dec8(Low8(BigMag(x)))) ELSE Low8(BigMag(x))

(***************************************************************************)
(* Floating point.  A float is held as the 64 bits of its float64 value    *)
(* (what rv.Float() returns), most significant byte first; a float32 is    *)
(* held as the float64 it converts to exactly.                             *)
(***************************************************************************)
RECURSIVE Log2(_)
Log2(x) == IF x <= 1 THEN 0 ELSE 1 + Log2(x \div 2)
RECURSIVE Pow2(_)
Pow2(n) == IF n = 0 THEN 1 ELSE 2 * Pow2(n - 1)

(* the float64 of sign s, biased exponent ex and the top 23 bits m of the  *)
(* mantissa                                                                *)
Float64Bits(s, ex, m) ==
    <<s * 128 + ex \div 16, (ex % 16) * 16 + m \div 524288, (m \div 2048) % 256,
      (m \div 8) % 256, (m % 8) * 32, 0, 0, 0>>

(* float64(f) of the float32 with sign s, biased exponent ex8, mantissa m *)
FromFloat32(s, ex8, m) ==
    IF ex8 = 0
    THEN IF m = 0 THEN Float64Bits(s, 0, 0)
         ELSE Float64Bits(s, Log2(m) + 874, (m - Pow2(Log2(m))) * Pow2(23 - Log2(m)))
    ELSE IF ex8 = 255
    THEN Float64Bits(s, 2047, IF m = 0 THEN 0 ELSE (m % 4194304) + 4194304)
    ELSE Float64Bits(s, ex8 + 896, m)

(* float64(math.Float32frombits(uint32(aux))) *)
Float32frombits(aux) ==
    FromFloat32(aux[5] \div 128, (aux[5] % 128) * 2 + aux[6] \div 128,
                (aux[6] % 128) * 65536 + aux[7] * 256 + aux[8])

(* float64(float32(d)): d rounded to the nearest float32, ties to even *)
RoundFloat32(d) ==
    LET s == d[1] \div 128
        ex == (d[1] % 128) * 16 + d[2] \div 16
        mhi == (d[2] % 16) * 524288 + d[3] * 2048 + d[4] * 8 + d[5] \div 32
        rtop == d[5] % 32
        low == d[6] # 0 \/ d[7] # 0 \/ d[8] # 0
        sticky == rtop # 0 \/ low
        above == rtop > 16 \/ (rtop = 16 /\ low)
        tie == rtop = 16 /\ ~low
        E == ex - 1023
        mant == 8388608 + mhi + (IF above \/ (tie /\ mhi % 2 = 1) THEN 1 ELSE 0)
        E1 == IF mant = 16777216 THEN E + 1 ELSE E
        shift == -126 - E
        q == (8388608 + mhi) \div Pow2(shift)
        r == (8388608 + mhi) % Pow2(shift)
        bits == q + (IF r > Pow2(shift - 1) \/ (r = Pow2(shift - 1) /\ (sticky \/ q % 2 = 1))
                     THEN 1 ELSE 0)
    IN  IF ex = 2047 THEN FromFloat32(s, 255, IF mhi = 0 /\ sticky THEN 1 ELSE mhi)
        ELSE IF ex = 0 THEN FromFloat32(s, 0, 0)
        ELSE IF E >= -126
        THEN IF E1 > 127 THEN FromFloat32(s, 255, 0)
             ELSE FromFloat32(s, E1 + 127, mant % 8388608)
        ELSE IF shift > 25 THEN FromFloat32(s, 0, 0)
        ELSE FromFloat32(s, bits \div 8388608, bits % 8388608)

(* the half-precision float of the low 16 bits of aux, as a float64 *)
HalfToFloat64(aux) ==
    LET half == aux[7] * 256 + aux[8]
        exp == (half \div 1024) % 32
        mant == half % 1024
        s == half \div 32768
    IN  IF exp = 0
        THEN IF mant = 0 THEN Float64Bits(s, 0, 0)
             ELSE Float64Bits(s, Log2(mant) + 999,
                              (mant - Pow2(Log2(mant))) * Pow2(23 - Log2(mant)))
        ELSE IF exp # 31 THEN Float64Bits(s, exp + 1008, mant * 8192)
        ELSE IF mant = 0 THEN Float64Bits(s, 2047, 0)
        ELSE <<s * 128 + 127, 248, 0, 0, 0, 0, 0, 1>>

(* rv.SetFloat(x) *)
SetFloat(rv, x) ==
    Store(rv, [rv.x EXCEPT !.n = IF Kind(rv) = "float32" THEN RoundFloat32(x) ELSE x])

(***************************************************************************)
(* The setters of go/decoder.go.  Each returns [err, val]: the error       *)
(* ("nil", "err" for an error value, "panic" when the call panics) and the *)
(* content of rv's location afterwards.                                    *)
(***************************************************************************)
(* what the setter's call on reflect.Indirect(rv) leaves in rv's location *)
Through(rv, r) == [err |-> r.err, val |-> Outer(rv, r.val)]

RECURSIVE setBignum(_, _), setBytes(_, _), setUint(_, _), setInt(_, _),
          setFloat32(_, _), setFloat64(_, _)

setBignum(rv, x) ==
    CASE Kind(rv) = "ptr" -> Through(rv, setBignum(Indirect(rv), x))
      [] Kind(rv) = "interface" -> Set(rv, x)
      [] Kind(rv) = "int32" ->
            IF BitLen(x) < 32 THEN Store(rv, [rv.x EXCEPT !.n = BigInt64(x)])
            ELSE Fail("err", rv.x)
      [] Kind(rv) \in {"int", "int64"} ->
            IF BitLen(x) < 64 THEN Store(rv, [rv.x EXCEPT !.n = BigInt64(x)])
            ELSE Fail("err", rv.x)
      [] Kind(rv) = "invalid" -> Fail("panic", rv.x)
      [] OTHER -> Fail("err", rv.x)

setBytes(rv, buf) ==
    CASE Kind(rv) = "ptr" -> Through(rv, setBytes(Indirect(rv), buf))
      [] Kind(rv) = "interface" -> Set(rv, Bytes(buf))
      [] Kind(rv) = "slice" ->
            IF rv.x.t.el[1].k = "uint8" THEN Store(rv, [rv.x EXCEPT !.n = buf])
            ELSE Fail("err", rv.x)
      [] Kind(rv) = "string" -> Set(rv, Str(buf))
      [] OTHER -> Fail("err", rv.x)

setUint(rv, u) ==
    CASE Kind(rv) = "ptr" ->
            IF IsNil(rv)
            THEN IF CanSet(rv)
                 THEN LET fresh == RvSet(Ptr(rv.x.t.el[1], <<ZeroOf(rv.x.t.el[1])>>))
                      IN  Through(fresh, setUint(Indirect(fresh), u))
                 ELSE Fail("err", rv.x)
            ELSE Through(rv, setUint(Indirect(rv), u))
      [] Kind(rv) \in UintKinds ->
            IF OverflowUint(Kind(rv), u) THEN Fail("err", rv.x)
            ELSE Store(rv, [rv.x EXCEPT !.n = u])
      [] Kind(rv) \in IntKinds ->
            IF u = Ones8 \/ OverflowInt(Kind(rv), u) THEN Fail("err", rv.x)
            ELSE Store(rv, [rv.x EXCEPT !.n = u])
      [] Kind(rv) = "interface" -> Set(rv, Num("uint64", u))
      [] Kind(rv) = "invalid" -> Fail("panic", rv.x)
      [] OTHER -> Fail("err", rv.x)

setInt(rv, i) ==
    CASE Kind(rv) = "ptr" -> Through(rv, setInt(Indirect(rv), i))
      [] Kind(rv) \in IntKinds ->
            IF OverflowInt(Kind(rv), i) THEN Fail("err", rv.x)
            ELSE Store(rv, [rv.x EXCEPT !.n = i])
      [] Kind(rv) = "interface" -> Set(rv, Num("int64", i))
      [] Kind(rv) = "invalid" -> Fail("panic", rv.x)
      [] OTHER -> Fail("err", rv.x)

setFloat32(rv, f) ==
    CASE Kind(rv) = "ptr" -> Through(rv, setFloat32(Indirect(rv), f))
      [] Kind(rv) \in FloatKinds -> SetFloat(rv, Float32frombits(f))
      [] Kind(rv) = "interface" -> Set(rv, Num("float32", Float32frombits(f)))
      [] Kind(rv) = "invalid" -> Fail("panic", rv.x)
      [] OTHER -> Fail("err", rv.x)

setFloat64(rv, d) ==
    CASE Kind(rv) = "ptr" -> Through(rv, setFloat64(Indirect(rv), d))
      [] Kind(rv) \in FloatKinds -> SetFloat(rv, d)
      [] Kind(rv) = "interface" -> Set(rv, Num("float64", d))
      [] Kind(rv) = "invalid" -> Fail("panic", rv.x)
      [] OTHER -> Fail("err", rv.x)

(* rv.Set(reflect.Zero(rv.Type())), whatever the kind of rv *)
setNil(rv) ==
    IF Kind(rv) = "interface" /\ IsNil(rv) THEN Ok(rv.x)
    ELSE Store(rv, ZeroOf(rv.x.t))

(* reflect.Indirect(rv).Set(reflect.ValueOf(v)) *)
SetIndirect(rv, v) == Through(rv, Set(Indirect(rv), v))

dtStringSet(rv, xs) ==
    LET deref == Indirect(rv)
    IN  IF ~CanSet(deref)
        THEN IF rv.mode = "set" /\ rv.x.t = TPtr(Ty("string"))
             THEN Ok(Ptr(Ty("string"), <<Str(xs)>>))
             ELSE Fail("panic", rv.x)
        ELSE Through(rv, Set(deref, Str(xs)))

(***************************************************************************)
(* The decoder (go/decoder.go).  A decoder d is [rin, pos, tags, posts]:   *)
(* the bytes of the stream, how many of them have been read, the           *)
(* TagDecoders registry, a set of handlers [tag, tt, fails]: the tag code, *)
(* the type of the target DecodeTarget allocates, and whether PostDecode   *)
(* returns an error (it returns the decoded value otherwise), and the      *)
(* number of calls of PostDecode made so far.                              *)
(* Every decoding function returns [err, d, val]: the error ("nil", "io"   *)
(* for the stream's error, "err", "invalid" for InvalidUnmarshalError,     *)
(* "panic"), the decoder and the content of rv's location afterwards.      *)
(***************************************************************************)
NewDecoder(rin) == [rin |-> rin, pos |-> 0, tags |-> {}, posts |-> 0]

Remaining(d) == Len(d.rin) - d.pos

RECURSIVE Zeros(_)
Zeros(n) == IF n = 0 THEN <<>> ELSE Append(Zeros(n - 1), 0)

(* a uint64 below 2^31 as a natural *)
AuxNat(aux) == aux[5] * 16777216 + aux[6] * 65536 + aux[7] * 256 + aux[8]

(* make([]byte, aux) panics when the length is out of range *)
MaxAlloc == <<0, 1, 0, 0, 0, 0, 0, 0>>
MakePanics(aux) == LtU64(MaxAlloc, aux)
MaxCap == <<0, 0, 16, 0, 0, 0, 0, 0>>
MakeCapPanics(aux) == LtU64(MaxCap, aux)

(* io.ReadFull(dec.rin, buf) with len(buf) = n: [err, d, buf] *)
ReadFull(d, n) ==
    IF ~LtU64(U(Remaining(d)), n)
    THEN [err |-> "nil",
          d |-> [d EXCEPT !.pos = @ + AuxNat(n)],
          buf |-> SubSeq(d.rin, d.pos + 1, d.pos + AuxNat(n))]
    ELSE [err |-> "io",
          d |-> [d EXCEPT !.pos = Len(d.rin)],
          buf |-> SubSeq(d.rin, d.pos + 1, Len(d.rin)) \o Zeros(AuxNat(n) - Remaining(d))]

(* a result after which the decoder has lost its registered handlers *)
ResUnregistering(d, r) == [err |-> r.err, d |-> [d EXCEPT !.tags = {}], val |-> r.val]

Res(d, r) == [err |-> r.err, d |-> d, val |-> r.val]
ThroughD(rv, r) == [err |-> r.err, d |-> r.d, val |-> Outer(rv, r.val)]

handleInfoBits(d, cborInfo) ==
    IF cborInfo <= 23 THEN [err |-> "nil", d |-> d, aux |-> U(cborInfo)]
    ELSE IF cborInfo \in {int8Follows, int16Follows, int32Follows, int64Follows}
    THEN LET n == CASE cborInfo = int8Follows -> 1
                    [] cborInfo = int16Follows -> 2
                    [] cborInfo = int32Follows -> 4
                    [] OTHER -> 8
             r == ReadFull(d, U(n))
         IN  [err |-> r.err, d |-> r.d,
              aux |-> IF r.err = "nil" THEN Pad8(r.buf) ELSE Zero8]
    ELSE [err |-> "nil", d |-> d, aux |-> Zero8]

(* decodeBignum without the test of the wrapped item's major type *)
decodeBignumOfAnyType(d, c) ==
    LET h == handleInfoBits(d, InfoOfByte(c))
    IN  IF h.err # "nil" THEN [err |-> h.err, d |-> h.d, bn |-> <<>>]
        ELSE IF MakePanics(h.aux) THEN [err |-> "panic", d |-> h.d, bn |-> <<>>]
        ELSE LET r == ReadFull(h.d, h.aux)
             IN  IF r.err # "nil" THEN [err |-> r.err, d |-> r.d, bn |-> <<>>]
                 ELSE [err |-> "nil", d |-> r.d, bn |-> r.buf]

(* the fold of decodeBignum *)
decodeBignum(d, c) ==
    LET cborType == TypeOfByte(c)
        h == handleInfoBits(d, InfoOfByte(c))
    IN  IF h.err # "nil" THEN [err |-> h.err, d |-> h.d, bn |-> <<>>]
        ELSE IF cborType # cborBytes THEN [err |-> "err", d |-> h.d, bn |-> <<>>]
        ELSE IF MakePanics(h.aux) THEN [err |-> "panic", d |-> h.d, bn |-> <<>>]
        ELSE LET r == ReadFull(h.d, h.aux)
             IN  IF r.err # "nil" THEN [err |-> r.err, d |-> r.d, bn |-> <<>>]
                 ELSE [err |-> "nil", d |-> r.d, bn |-> r.buf]

(* strings.EqualFold on ASCII text *)
Lower(c) == IF c \in 65..90 THEN c + 32 ELSE c
(* a comparison that does not fold the case *)
EqualExact(s, t) == s = t

EqualFold(s, t) == Len(s) = Len(t) /\ \A i \in 1..Len(s) : Lower(s[i]) = Lower(t[i])

(* a key Go's maps cannot hash: SetMapIndex panics on it *)
Unhashable(v) ==
    \/ v.t.k \in {"slice", "map"}
    \/ v.t = TBigInt
    \/ v.t.k = "interface" /\ v.e # <<>> /\ (v.e[1].t.k \in {"slice", "map"} \/ v.e[1].t = TBigInt)

TCBORTag == TStruct(<<Field(<<84, 97, 103>>), Field(<<87, 114, 97, 112, 112, 101, 100, 79, 98, 106, 101, 99, 116>>)>>,
                    <<Ty("uint64"), TIface>>)
CBORTag(tag, wrapped) == Val(TCBORTag, <<>>, <<Num("uint64", tag), wrapped>>, {})

(* structAssigner.ReflectValueForKey: the index of the field the key binds *)
(* to, 0 when there is none                                                *)
RECURSIVE FieldForKey(_, _, _)
FieldForKey(t, skey, i) ==
    IF i > Len(t.nm) THEN 0
    ELSE LET fn == fieldname(t.nm[i])
         IN  IF fn.ok /\ (fn.name = skey \/ EqualFold(fn.name, skey)) THEN i
             ELSE FieldForKey(t, skey, i + 1)

(* a join that keeps the first chunk only *)
JoinFirstOnly(parts) == IF parts = <<>> THEN <<>> ELSE parts[1]

RECURSIVE Join(_)
Join(parts) == IF parts = <<>> THEN <<>> ELSE parts[1] \o Join(Tail(parts))

RECURSIVE reflectDecode(_, _), innerDecodeC(_, _, _), varBytes(_, _, _),
          decodeText(_, _, _, _), varText(_, _, _), setMapKV(_, _, _, _),
          decodeMap(_, _, _, _), mapLoop(_, _, _, _, _, _),
          decodeArray(_, _, _, _), arrayLoop(_, _, _, _, _, _), decodeTag(_, _, _)

reflectDecode(d, rv) ==
    LET r == ReadFull(d, U(1))
    IN  IF r.err # "nil" THEN [err |-> r.err, d |-> r.d, val |-> rv.x]
        ELSE IF rv.mode = "zero" THEN [err |-> "panic", d |-> r.d, val |-> rv.x]
        ELSE IF ~CanSet(rv) /\ (Kind(rv) # "ptr" \/ IsNil(rv))
             THEN [err |-> "invalid", d |-> r.d, val |-> rv.x]
        ELSE innerDecodeC(r.d, rv, r.buf[1])

(* dec.Decode(v) for v = &x, x the content of the caller's target *)
Decode(d, rv) == reflectDecode(d, rv)

(* the loop over the chunks of an indefinite-length byte string *)
varBytes(d, rv, parts) ==
    LET r == ReadFull(d, U(1))
    IN  IF r.err # "nil" THEN [err |-> r.err, d |-> r.d, val |-> rv.x]
        ELSE IF r.buf[1] = 255 THEN Res(r.d, setBytes(rv, Join(parts)))
        ELSE IF TypeOfByte(r.buf[1]) # cborBytes THEN [err |-> "err", d |-> r.d, val |-> rv.x]
        ELSE LET sub == innerDecodeC(r.d, RvPtr(Bytes(<<>>)), r.buf[1])
             IN  IF sub.err # "nil" THEN [err |-> sub.err, d |-> sub.d, val |-> rv.x]
                 ELSE varBytes(sub.d, rv, Append(parts, sub.val.n))

(* the loop over the chunks of an indefinite-length text string *)
varText(d, rv, parts) ==
    LET r == ReadFull(d, U(1))
    IN  IF r.err # "nil" THEN [err |-> r.err, d |-> r.d, val |-> rv.x]
        ELSE IF r.buf[1] = 255
             THEN LET st == dtStringSet(rv, Join(parts))
                  IN  [err |-> IF st.err = "panic" THEN "panic" ELSE "nil",
                       d |-> r.d, val |-> st.val]
        ELSE LET sub == innerDecodeC(r.d, RvPtr(NilIface), r.buf[1])
             IN  IF sub.err # "nil" THEN [err |-> sub.err, d |-> sub.d, val |-> rv.x]
                 ELSE IF sub.val.e # <<>> /\ sub.val.e[1].t = Ty("string")
                      THEN varText(sub.d, rv, Append(parts, sub.val.e[1].n))
                 ELSE [err |-> "err", d |-> sub.d, val |-> rv.x]

decodeText(d, rv, cborInfo, aux) ==
    IF cborInfo = varFollows THEN varText(d, rv, <<>>)
    ELSE IF MakePanics(aux) THEN [err |-> "panic", d |-> d, val |-> rv.x]
    ELSE LET r == ReadFull(d, aux)
             st == dtStringSet(rv, r.buf)
         IN  [err |-> IF st.err = "panic" THEN "panic" ELSE "nil", d |-> r.d, val |-> st.val]

(* a threshold one too high: 2^63 itself is taken for an int64 *)
bigNegintFrom2to63Plus1(aux) == LtU64(Pow63, aux)

(* aux > 0x7fffffffffffffff: -1-aux is no int64 *)
bigNegint(aux) == LtU64(MaxInt64, aux)

(* the branch of innerDecodeC for a tag: aux is the tag code *)
decodeTag(d, rv, aux) ==
    LET ic == ReadFull(d, U(1))
    IN  IF ic.err # "nil" THEN [err |-> ic.err, d |-> ic.d, val |-> rv.x]
        ELSE IF aux \in {U(tagBignum), U(tagNegBignum)}
        THEN LET b == decodeBignum(ic.d, ic.buf[1])
             IN  IF b.err # "nil" THEN [err |-> b.err, d |-> b.d, val |-> rv.x]
                 ELSE IF aux = U(tagBignum) THEN Res(b.d, setBignum(rv, BigInt(FALSE, b.bn)))
                 ELSE Res(b.d, setBignum(rv, MinusOneMinus(b.bn)))
        ELSE IF aux \in {U(tagDecimal), U(tagBigfloat)}
        THEN [err |-> "nil", d |-> ic.d, val |-> rv.x]
        ELSE IF \E h \in d.tags : U(h.tag) = aux
        THEN LET h == CHOOSE h \in d.tags : U(h.tag) = aux
                 sub == innerDecodeC(ic.d, RvPtr(ZeroOf(h.tt)), ic.buf[1])
             IN  IF sub.err # "nil" THEN [err |-> sub.err, d |-> sub.d, val |-> rv.x]
                 ELSE LET called == [sub.d EXCEPT !.posts = @ + 1]
                          target == sub.val
                      IN  IF h.fails THEN [err |-> "err", d |-> called, val |-> rv.x]
                          ELSE IF target.t.k # "interface"
                          THEN Res(called, SetIndirect(rv, target))
                          ELSE IF target.e = <<>>
                          THEN [err |-> "panic", d |-> called, val |-> rv.x]
                          ELSE Res(called, SetIndirect(rv, target.e[1]))
        ELSE LET sub == innerDecodeC(ic.d, RvPtr(NilIface), ic.buf[1])
             IN  IF sub.err # "nil" THEN [err |-> sub.err, d |-> sub.d, val |-> rv.x]
                 ELSE Res(sub.d, SetIndirect(rv, CBORTag(aux, sub.val)))

innerDecodeC(d, rv, c) ==
    LET cborType == TypeOfByte(c)
        cborInfo == InfoOfByte(c)
        h == handleInfoBits(d, cborInfo)
        aux == h.aux
    IN  IF h.err # "nil" THEN [err |-> h.err, d |-> h.d, val |-> rv.x]
        ELSE CASE cborType = cborUint -> Res(h.d, setUint(rv, aux))
               [] cborType = cborNegint ->
                    IF bigNegint(aux) THEN Res(h.d, setBignum(rv, MinusOneMinus(aux)))
                    ELSE Res(h.d, setInt(rv, NotU64(aux)))
               [] cborType = cborBytes ->
                    IF cborInfo = varFollows THEN varBytes(h.d, rv, <<>>)
                    ELSE IF MakePanics(aux) THEN [err |-> "panic", d |-> h.d, val |-> rv.x]
                    ELSE LET r == ReadFull(h.d, aux)
                         IN  IF r.err # "nil" THEN [err |-> r.err, d |-> r.d, val |-> rv.x]
                             ELSE Res(r.d, setBytes(rv, r.buf))
               [] cborType = cborText -> decodeText(h.d, rv, cborInfo, aux)
               [] cborType = cborArray -> decodeArray(h.d, rv, cborInfo, aux)
               [] cborType = cborMap -> decodeMap(h.d, rv, cborInfo, aux)
               [] cborType = cborTag -> decodeTag(h.d, rv, aux)
               [] OTHER ->
                    CASE cborInfo = int16Follows -> Res(h.d, setFloat64(rv, HalfToFloat64(aux)))
                      [] cborInfo = int32Follows -> Res(h.d, setFloat32(rv, aux))
                      [] cborInfo = int64Follows -> Res(h.d, setFloat64(rv, aux))
                      [] cborInfo = cborFalse ->
                            LET r == SetIndirect(rv, Bool(FALSE))
                            IN  [err |-> IF r.err = "panic" THEN "panic" ELSE "nil",
                                 d |-> h.d, val |-> r.val]
                      [] cborInfo = cborTrue ->
                            LET r == SetIndirect(rv, Bool(TRUE))
                            IN  [err |-> IF r.err = "panic" THEN "panic" ELSE "nil",
                                 d |-> h.d, val |-> r.val]
                      [] cborInfo = cborNull -> Res(h.d, setNil(rv))
                      [] OTHER -> [err |-> "nil", d |-> h.d, val |-> rv.x]

(* the loops of decodeArray, from element i; acc is the slice being built  *)
(* (irv) or the array being filled (rv)                                    *)
arrayLoop(d, rv, acc, i, cborInfo, aux) ==
    LET isArray == Kind(rv) = "array"
        head == IF cborInfo = varFollows THEN ReadFull(d, U(1))
                ELSE [err |-> "nil", d |-> d, buf |-> <<0>>]
        done == IF cborInfo = varFollows THEN head.buf[1] = 255 ELSE ~LtU64(U(i), aux)
        elemrv == IF isArray THEN [mode |-> rv.mode, x |-> acc.e[i + 1]]
                  ELSE RvPtr(ZeroOf(acc.t.el[1]))
        sub == IF cborInfo = varFollows THEN innerDecodeC(head.d, elemrv, head.buf[1])
               ELSE reflectDecode(head.d, elemrv)
    IN  IF head.err # "nil"
        THEN [err |-> head.err, d |-> head.d, val |-> IF isArray THEN acc ELSE rv.x]
        ELSE IF done
        THEN IF isArray THEN [err |-> "nil", d |-> head.d, val |-> acc]
             ELSE Res(head.d, Set(rv, acc))
        ELSE IF isArray /\ i >= acc.t.ln
        THEN [err |-> "panic", d |-> head.d, val |-> acc]
        ELSE IF sub.err # "nil"
        THEN [err |-> sub.err, d |-> sub.d,
              val |-> IF isArray THEN [acc EXCEPT !.e[i + 1] = sub.val] ELSE rv.x]
        ELSE arrayLoop(sub.d, rv,
                       IF isArray THEN [acc EXCEPT !.e[i + 1] = sub.val]
                       ELSE [acc EXCEPT !.e = Append(@, sub.val)],
                       i + 1, cborInfo, aux)

decodeArray(d, rv0, cborInfo, aux) ==
    LET rv == IF Kind(rv0) = "ptr" THEN Indirect(rv0) ELSE rv0
    IN  CASE Kind(rv) = "interface" ->
               IF cborInfo # varFollows /\ MakeCapPanics(aux)
               THEN [err |-> "panic", d |-> d, val |-> rv0.x]
               ELSE ThroughD(rv0, arrayLoop(d, rv, Slice(TIface, <<>>), 0, cborInfo, aux))
          [] Kind(rv) \in {"slice", "array"} ->
               ThroughD(rv0, arrayLoop(d, rv, rv.x, 0, cborInfo, aux))
          [] Kind(rv) = "invalid" -> [err |-> "panic", d |-> d, val |-> rv0.x]
          [] OTHER -> [err |-> "err", d |-> d, val |-> rv0.x]

(* irv.SetMapIndex(krv, vrv) in mapReflectValue.SetReflectValueForKey *)
SetReflectValueForKey(acc, key, value) ==
    LET k1 == IF key.t.k = "interface" /\ key.e # <<>> THEN key.e[1] ELSE key
        krv == IF k1.t = TBytes THEN Str(k1.n) ELSE k1
        kt == acc.t.el[1]
        stored == IF kt.k = "interface" THEN Iface(<<krv>>) ELSE krv
    IN  IF key.t.k = "interface" /\ key.e = <<>> THEN Fail("panic", acc)
        ELSE IF Unhashable(krv) THEN Fail("panic", acc)
        ELSE IF kt.k # "interface" /\ krv.t # kt THEN Fail("panic", acc)
        ELSE Ok([acc EXCEPT !.m = {p \in @ : p[1] # stored} \cup {<<stored, value>>}])

(* setMapKV: key is the decoded key, acc the map or struct being filled,   *)
(* settable whether the struct's fields can be set                         *)
setMapKV(d, key, acc, settable) ==
    IF acc.t.k = "struct"
    THEN LET idx == FieldForKey(acc.t, key.n, 1)
         IN  IF idx = 0 \/ ~settable
             THEN LET r == Decode(d, RvPtr(NilIface))
                  IN  [err |-> r.err, d |-> r.d, val |-> acc]
             ELSE LET r == reflectDecode(d, RvSet(acc.e[idx]))
                  IN  [err |-> r.err, d |-> r.d, val |-> [acc EXCEPT !.e[idx] = r.val]]
    ELSE LET r == reflectDecode(d, RvPtr(ZeroOf(acc.t.el[2])))
         IN  IF r.err # "nil" THEN [err |-> r.err, d |-> r.d, val |-> acc]
             ELSE Res(r.d, SetReflectValueForKey(acc, key, r.val))

(* the loops of decodeMap, from entry i; acc is the map or struct filled *)
mapLoop(d, drv, acc, i, cborInfo, aux) ==
    LET isIface == Kind(drv) = "interface"
        keyType == IF acc.t.k = "struct" THEN TString ELSE acc.t.el[1]
        krv == RvPtr(ZeroOf(keyType))
        head == IF cborInfo = varFollows THEN ReadFull(d, U(1))
                ELSE [err |-> "nil", d |-> d, buf |-> <<0>>]
        done == IF cborInfo = varFollows THEN head.buf[1] = 255 ELSE ~LtU64(U(i), aux)
        k == IF cborInfo = varFollows THEN innerDecodeC(head.d, krv, head.buf[1])
             ELSE reflectDecode(head.d, krv)
        kv == setMapKV(k.d, k.val, acc, drv.mode = "set")
    IN  IF head.err # "nil"
        THEN [err |-> head.err, d |-> head.d, val |-> IF isIface THEN drv.x ELSE acc]
        ELSE IF done
        THEN IF isIface THEN Res(head.d, Set(drv, acc))
             ELSE [err |-> "nil", d |-> head.d, val |-> acc]
        ELSE IF k.err # "nil"
        THEN [err |-> k.err, d |-> k.d, val |-> IF isIface THEN drv.x ELSE acc]
        ELSE IF kv.err # "nil"
        THEN [err |-> kv.err, d |-> kv.d, val |-> IF isIface THEN drv.x ELSE kv.val]
        ELSE mapLoop(kv.d, drv, kv.val, i + 1, cborInfo, aux)

decodeMap(d, rv, cborInfo, aux) ==
    LET drv == IF Kind(rv) = "ptr" THEN Indirect(rv) ELSE rv
    IN  CASE Kind(drv) = "interface" ->
               ThroughD(rv, mapLoop(d, drv, Map(TIface, TIface, {}), 0, cborInfo, aux))
          [] Kind(drv) \in {"struct", "map"} ->
               ThroughD(rv, mapLoop(d, drv, drv.x, 0, cborInfo, aux))
          [] OTHER -> [err |-> "err", d |-> d, val |-> rv.x]

(***************************************************************************)
(* The values the callers encode.                                          *)
(***************************************************************************)
IntV(x) == Num("int", I(x))
sA == <<97>>
sB == <<98>>
sAA == <<97, 97>>
sAB == <<97, 98>>

(* struct { A int; B string } *)
TRec == TStruct(<<Field(<<65>>), Field(<<66>>)>>, <<TInt, TString>>)

UintValues ==
    {Num("uint64", x) : x \in {U(0), U(23), U(24), U(255), U(256), U(65535), U(65536),
                               MaxUint32, Pow32, Pow63, Ones8}}
    \cup {Num("uint8", U(255)), Num("uint16", U(65535)), Num("uint32", MaxUint32),
          Num("uint", U(7))}

IntValues ==
    {Num("int64", x) : x \in {I(-1), I(-24), I(-25), I(-256), I(-257), Pow63, MaxInt64}}
    \cup {Num("int8", I(-128)), Num("int16", I(-32768)), Num("int32", I(65536)), IntV(5)}

ScalarValues ==
    UintValues \cup IntValues
    \cup {Bool(TRUE), Bool(FALSE), Str(<<>>), Str(sA), Str(sAB),
          Bytes(<<>>), Bytes(<<0, 255>>)}

SliceValues ==
    {Slice(TInt, <<>>), Slice(TInt, <<IntV(1), IntV(-1)>>),
     Slice(TString, <<Str(sA), Str(<<>>)>>),
     Slice(TSlice(TInt), <<Slice(TInt, <<IntV(24)>>), Slice(TInt, <<>>)>>)}

MapValues ==
    {Map(TString, TInt, {}),
     Map(TString, TInt, {<<Str(sB), IntV(2)>>, <<Str(sA), IntV(1)>>}),
     Map(TString, TInt, {<<Str(sB), IntV(2)>>, <<Str(sAA), IntV(1)>>}),
     Map(TString, TSlice(TInt), {<<Str(sA), Slice(TInt, <<IntV(2), IntV(3)>>)>>}),
     Map(TInt, TInt, {<<IntV(1), IntV(1)>>, <<IntV(2), IntV(2)>>}),
     Map(TInt, TString, {<<IntV(100), Str(sA)>>, <<IntV(-51), Str(sB)>>})}

PtrValues ==
    {Ptr(TInt, <<IntV(-1)>>), Ptr(Ty("uint"), <<Num("uint", U(5))>>),
     Ptr(TString, <<Str(sA)>>)}

StructValues == {Val(TRec, <<>>, <<IntV(-7), Str(sAB)>>, {})}

Values == ScalarValues \cup SliceValues \cup MapValues \cup StructValues \cup PtrValues

(* every key of every map inside v *)
RECURSIVE KeysIn(_), KeysInSeq(_, _)
KeysIn(v) ==
    MapKeys(v)
    \cup UNION {KeysIn(p[1]) \cup KeysIn(p[2]) : p \in v.m}
    \cup KeysInSeq(v.e, Len(v.e))
KeysInSeq(e, i) == IF i = 0 THEN {} ELSE KeysIn(e[i]) \cup KeysInSeq(e, i - 1)

(* the orders in which the runtime may enumerate the keys of S *)
RECURSIVE Orders(_)
Orders(S) ==
    IF S = {} THEN {<<>>}
    ELSE UNION {{<<x>> \o o : o \in Orders(S \ {x})} : x \in S}

(***************************************************************************)
(* The bytes a decoder may be handed by a peer, and the targets a caller   *)
(* may decode them into.                                                   *)
(***************************************************************************)
WireBytes == {1, 24, 28, 42, 65, 97, 98, 129, 159, 161, 196, 244, 255}

RECURSIVE SeqsUpTo(_, _)
SeqsUpTo(S, n) ==
    IF n = 0 THEN {<<>>}
    ELSE LET shorter == SeqsUpTo(S, n - 1)
         IN  shorter \cup {Append(q, x) : q \in shorter, x \in S}

Wires == SeqsUpTo(WireBytes, MaxWire) \ {<<>>}

Targets ==
    {TIface, TInt, Ty("uint8"), Ty("float64"), Ty("bool"), TString, TBytes,
     TSlice(TInt), TArray(1, TInt), TMap(TString, TInt), TRec, TPtr(TInt)}

(***************************************************************************)
(* The state: an encoder writing the stream and the log of its Encode      *)
(* calls; a decoder reading the stream and the log of its Decode calls.    *)
(***************************************************************************)
VARIABLES enc, sent, dec, got

vars == <<enc, sent, dec, got>>

Init ==
    /\ enc = NewWriter({})
    /\ sent = <<>>
    /\ dec = NewDecoder(<<>>)
    /\ got = <<>>

(* a panic that nothing recovers ends the program *)
Running == \A i \in 1..Len(got) : got[i].err # "panic"

(* enc.Encode(v), the runtime enumerating map keys in the order ord; the   *)
(* stream carries the bytes written to the decoder's reader                *)
DoEncode(v, ord) ==
    /\ Len(sent) < MaxStream
    /\ LET r == Encode(enc, v, ord)
       IN  /\ enc' = r
           /\ sent' = Append(sent, [v |-> v, ord |-> ord, from |-> Len(enc.out),
                                    to |-> Len(r.out), err |-> r.err,
                                    nw |-> r.nw - enc.nw])
           /\ dec' = [dec EXCEPT !.rin = r.out]
    /\ UNCHANGED got

(* err := dec.Decode(ob), rv being reflect.ValueOf(ob) *)
DecodeValue(rv) ==
    LET r == Decode(dec, rv)
    IN  /\ dec' = r.d
        /\ got' = Append(got, [tt |-> rv.x.t, err |-> r.err, val |-> r.val,
                               from |-> dec.pos, to |-> r.d.pos,
                               mode |-> rv.mode, x |-> rv.x,
                               posts |-> r.d.posts - dec.posts])
        /\ UNCHANGED <<enc, sent>>

(* var x T; err := dec.Decode(&x) *)
DecodeNext(tt) == DecodeValue(RvPtr(ZeroOf(tt)))

(* the reader of the stream decodes the next value into a zero target of   *)
(* the type of the value written                                           *)
DoDecode ==
    /\ Len(got) < Len(sent)
    /\ Running
    /\ DecodeNext(sent[Len(got) + 1].v.t)

Next ==
    \/ \E v \in Values : \E ord \in Orders(KeysIn(v)) : DoEncode(v, ord)
    \/ DoDecode

Spec == Init /\ [][Next]_vars

(* A decoder reading bytes that a peer wrote. *)
InitWire ==
    /\ enc = NewWriter({})
    /\ sent = <<>>
    /\ dec \in {NewDecoder(w) : w \in Wires}
    /\ got = <<>>

DecodeInto(tt) ==
    /\ Len(got) < MaxStream
    /\ \A i \in 1..Len(got) : got[i].err = "nil"
    /\ DecodeNext(tt)

NextWire == \E tt \in Targets : DecodeInto(tt)

SpecWire == InitWire /\ [][NextWire]_vars

(* A decoder reading chosen items of a peer, with tag handlers registered  *)
(* in dec.TagDecoders before the first Decode.                             *)
Zeros7 == <<0, 0, 0, 0, 0, 0, 0>>
Ones7 == <<255, 255, 255, 255, 255, 255, 255>>

CaseWires ==
    {<<162, 97, 122, 1, 97, 65, 5>>, <<162, 97, 122, 246, 97, 65, 5>>,
     <<162, 97, 122, 129, 1, 97, 65, 5>>, <<162, 97, 65, 5, 97, 122, 97>>,
     <<24, 255>>, <<25, 1, 0>>, <<26, 128, 0, 0, 0>>, <<23, 1>>,
     <<27, 127>> \o Ones7, <<27, 128>> \o Zeros7, <<27, 255>> \o Ones7,
     <<32, 1>>, <<56, 255>>, <<59, 127>> \o Ones7, <<59, 128>> \o Zeros7,
     <<59, 255>> \o Ones7,
     <<194, 73, 1, 0>> \o Zeros7, <<194, 64>>, <<195, 65, 1>>, <<195, 66, 255, 255>>,
     <<194, 1>>, <<195, 97, 97>>, <<194, 246>>,
     <<95, 65, 1, 65, 2, 255>>, <<95, 255, 1>>, <<95, 64, 66, 1, 2, 255>>,
     <<127, 97, 97, 97, 98, 255>>, <<127, 255, 1>>, <<127, 96, 98, 97, 98, 255>>,
     <<95, 97, 97, 255>>, <<95, 1, 255>>, <<127, 65, 1, 255>>, <<127, 1, 255>>,
     <<127, 246, 255>>, <<127, 198, 97, 97, 255>>,
     <<198, 1, 1>>, <<198, 97, 97>>, <<198, 246>>, <<198, 24>>,
     <<193, 1, 1>>, <<193, 246>>, <<193, 129, 1>>, <<216, 100, 97, 97>>,
     <<196, 24, 42, 2>>, <<196, 1, 2>>, <<197, 1, 2>>, <<130, 196, 24, 42, 2>>,
     <<130, 196, 1, 2>>, <<196, 130, 1, 2>>,
     <<246, 1>>, <<129, 246>>, <<161, 97, 97, 246>>, <<161, 97, 65, 246>>, <<161, 97, 90, 5>>,
     <<162, 97, 97, 1, 97, 98, 130, 2, 3>>, <<130, 1, 97, 97>>, <<161, 129, 1, 2>>,
     <<244, 245>>, <<128, 160>>, <<161, 1, 130, 32, 245>>,
     <<162, 97, 98, 97, 97, 97, 97, 5>>, <<162, 97, 65, 5, 97, 66, 97, 97>>,
     <<130, 1, 2>>, <<129, 1>>, <<130, 1, 129, 1>>, <<130, 1>>,
     <<159, 1, 2, 255>>, <<159, 255, 1>>, <<159, 159, 1, 255, 2, 255>>,
     <<191, 97, 97, 1, 255>>, <<191, 255>>, <<191, 97, 97, 1, 97, 98, 130, 2, 3, 255>>,
     <<129, 255>>, <<255, 1>>, <<191, 97, 97, 255, 255>>, <<159, 1, 129, 1, 255>>}

(* the handlers of tag 6: DecodeTarget() returns a pointer to a zero value *)
(* of the type tt, PostDecode returns the decoded value, or an error       *)
TagDecoder(tt, fails) == [tag |-> 6, tt |-> tt, fails |-> fails]

Registries ==
    {{}, {TagDecoder(TIface, FALSE)}, {TagDecoder(TIface, TRUE)},
     {TagDecoder(TString, FALSE)}}

(* struct { A int `cbor:"z"` } *)
TRenamed == TStruct(<<[name |-> <<65>>, cbor |-> <<(<<122>>)>>, json |-> <<>>]>>, <<TInt>>)

CaseTargets ==
    {TIface, TInt, Ty("int8"), Ty("int32"), Ty("int64"), Ty("uint8"), Ty("uint64"),
     TString, TBytes, TBigInt, TRec, TRenamed, TSlice(TInt), TArray(1, TInt),
     TArray(2, TInt), TMap(TString, TInt)}

(* targets that already hold a value *)
PriorTargets ==
    {IntV(5), Num("int8", I(5)), Str(sB), Iface(<<Str(sB)>>), Slice(TInt, <<IntV(9)>>)}

(* Decode(nil), Decode(5), Decode(p) for a nil pointer p to an int *)
InvalidTargets == {RvZero, RvRo(IntV(5)), RvRo(Ptr(TInt, <<>>))}

InitCases ==
    /\ enc = NewWriter({})
    /\ sent = <<>>
    /\ dec \in {[NewDecoder(w) EXCEPT !.tags = reg] : w \in CaseWires, reg \in Registries}
    /\ got = <<>>

(* the values handed to Decode: pointers to zero targets, pointers to      *)
(* targets holding a value, and values that are no pointer to a target     *)
CaseValues ==
    {RvPtr(ZeroOf(tt)) : tt \in CaseTargets} \cup {RvPtr(x) : x \in PriorTargets}
        \cup InvalidTargets

(* err := dec.Decode(v) *)
DecodeCase(rv) ==
    /\ Len(got) < MaxStream
    /\ \A i \in 1..Len(got) : got[i].err = "nil"
    /\ DecodeValue(rv)

NextCases == \E rv \in CaseValues : DecodeCase(rv)

SpecCases == InitCases /\ [][NextCases]_vars

(* An encoder whose writer fails: the MaxBad first writes are each, in    *)
(* turn, the one that returns an error.                                    *)
InitFail ==
    /\ enc \in {NewWriter({k}) : k \in 1..MaxBad}
    /\ sent = <<>>
    /\ dec = NewDecoder(<<>>)
    /\ got = <<>>

NextFail == \E v \in Values : \E ord \in Orders(KeysIn(v)) : DoEncode(v, ord)

SpecFail == InitFail /\ [][NextFail]_vars

(***************************************************************************)
(* What the claims speak of.                                               *)
(***************************************************************************)
(* the bytes the i-th Encode call wrote *)
SentBytes(i) == SubSeq(enc.out, sent[i].from + 1, sent[i].to)

(* the shortest head that can carry the unsigned x: 1, 2, 3, 5 or 9 bytes *)
ShortestHead(x) ==
    IF ~LtU64(U(23), x) THEN 1
    ELSE IF LtU64(x, U(256)) THEN 2
    ELSE IF LtU64(x, U(65536)) THEN 3
    ELSE IF LtU64(x, Pow32) THEN 5
    ELSE 9

(* the unsigned quantity tagAuxOut is handed for the integer v *)
HeadArg(v) == IF v.t.k \in IntKinds /\ IsNeg64(v.n) THEN NotU64(v.n) ELSE v.n

(* the encoding of a value that holds no map *)
Enc(v) == Encode(NewWriter({}), v, <<>>).out

(* length first, then bytewise *)
ShortLex(a, b) == Len(a) < Len(b) \/ (Len(a) = Len(b) /\ BytesLess(a, b))

(* the entries of the map v, each key and value encoded, in the order that *)
(* puts the key with the ShortLex-smaller bytes first; the bytes of a key  *)
(* are its whole encoding (full) or the text it holds                      *)
KeyBytes(k, full) == IF full THEN Enc(k) ELSE k.n
RECURSIVE EntriesInOrder(_, _)
EntriesInOrder(m, full) ==
    IF m = {} THEN <<>>
    ELSE LET first == CHOOSE p \in m :
                          \A q \in m \ {p} : ShortLex(KeyBytes(p[1], full), KeyBytes(q[1], full))
         IN  Enc(first[1]) \o Enc(first[2]) \o EntriesInOrder(m \ {first}, full)

MapHead(v) == tagAuxOut(NewWriter({}), cborMap, U(Cardinality(v.m))).out

(* RFC 7049: the wire value that starts after the first p bytes of b.  st  *)
(* is "ok" when it is complete and well formed, "short" when b ends before *)
(* it does, "bad" when it is malformed; end is the number of bytes of b up *)
(* to its end.                                                             *)
ExtraBytes(info) ==
    CASE info = int8Follows -> 1
      [] info = int16Follows -> 2
      [] info = int32Follows -> 4
      [] info = int64Follows -> 8
      [] OTHER -> 0

ItemHead(b, p) ==
    IF p >= Len(b) THEN [st |-> "short"]
    ELSE LET c == b[p + 1]
             info == InfoOfByte(c)
             n == ExtraBytes(info)
         IN  IF info \in 28..30 THEN [st |-> "bad"]
             ELSE IF p + 1 + n > Len(b) THEN [st |-> "short"]
             ELSE [st |-> "ok", mt |-> TypeOfByte(c), info |-> info, at |-> p + 1 + n,
                   arg |-> IF n = 0 THEN U(info) ELSE Pad8(SubSeq(b, p + 2, p + 1 + n))]

Short(b) == [st |-> "short", end |-> Len(b)]
Bad(b) == [st |-> "bad", end |-> Len(b)]
Whole(e) == [st |-> "ok", end |-> e]

(* a count of items no larger than b can hold *)
CountIn(b, arg) == IF LtU64(U(Len(b)), arg) THEN Len(b) + 1 ELSE AuxNat(arg)

(* the payload of a definite string whose head h ends at h.at *)
Payload(b, h) ==
    IF LtU64(U(Len(b) - h.at), h.arg) THEN Short(b) ELSE Whole(h.at + AuxNat(h.arg))

RECURSIVE Item(_, _), Items(_, _, _), IndefItems(_, _, _, _), Chunks(_, _, _)
Item(b, p) ==
    LET h == ItemHead(b, p)
    IN  IF h.st = "short" THEN Short(b)
        ELSE IF h.st = "bad" THEN Bad(b)
        ELSE CASE h.mt \in {cborUint, cborNegint} ->
                    IF h.info = varFollows THEN Bad(b) ELSE Whole(h.at)
               [] h.mt \in {cborBytes, cborText} ->
                    IF h.info = varFollows THEN Chunks(b, h.at, h.mt) ELSE Payload(b, h)
               [] h.mt = cborArray ->
                    IF h.info = varFollows THEN IndefItems(b, h.at, 1, 0)
                    ELSE Items(b, h.at, CountIn(b, h.arg))
               [] h.mt = cborMap ->
                    IF h.info = varFollows THEN IndefItems(b, h.at, 2, 0)
                    ELSE Items(b, h.at, 2 * CountIn(b, h.arg))
               [] h.mt = cborTag ->
                    IF h.info = varFollows THEN Bad(b) ELSE Item(b, h.at)
               [] OTHER -> IF h.info = varFollows THEN Bad(b) ELSE Whole(h.at)

Items(b, p, n) ==
    IF n = 0 THEN Whole(p)
    ELSE LET r == Item(b, p)
         IN  IF r.st # "ok" THEN r ELSE Items(b, r.end, n - 1)

(* the items of an indefinite container, k to a group, j of the group read *)
IndefItems(b, p, k, j) ==
    IF p >= Len(b) THEN Short(b)
    ELSE IF j = 0 /\ b[p + 1] = 255 THEN Whole(p + 1)
    ELSE LET r == Item(b, p)
         IN  IF r.st # "ok" THEN r ELSE IndefItems(b, r.end, k, (j + 1) % k)

(* the chunks of an indefinite string of major type mt *)
Chunks(b, p, mt) ==
    IF p >= Len(b) THEN Short(b)
    ELSE IF b[p + 1] = 255 THEN Whole(p + 1)
    ELSE LET h == ItemHead(b, p)
         IN  IF h.st = "short" THEN Short(b)
             ELSE IF h.st = "bad" \/ h.mt # mt \/ h.info = varFollows THEN Bad(b)
             ELSE LET r == Payload(b, h)
                  IN  IF r.st # "ok" THEN r ELSE Chunks(b, r.end, mt)

(* the wire value the i-th Decode call started on *)
GotItem(i) == Item(dec.rin, got[i].from)
GotByte(i) == IF got[i].from < Len(dec.rin) THEN dec.rin[got[i].from + 1] ELSE 255

NumericKinds == IntKinds \cup UintKinds \cup FloatKinds

(* a wire value of initial byte c that no coercion fits to a target tt *)
Mismatch(tt, c) ==
    \/ /\ tt.k \in NumericKinds
       /\ TypeOfByte(c) \in {cborBytes, cborText} \/ c \in {cbor7 + cborFalse, cbor7 + cborTrue}
    \/ /\ tt.k \in NumericKinds \cup {"bool", "string"}
       /\ TypeOfByte(c) \in {cborArray, cborMap}

(***************************************************************************)
(* The claims.                                                             *)
(***************************************************************************)
(* C1: round trip.  Every value a caller encoded and the reader then       *)
(* decoded into a zero target of the value's type came back, without       *)
(* error, equal to the value written.                                      *)
C1_RoundTrip ==
    \A i \in 1..Len(got) : got[i].err = "nil" /\ got[i].val = sent[i].v

(* a pointer to the int -1 was written, and decoding it into a nil *int    *)
(* panicked                                                                *)
C1_Failing ==
    \E i \in 1..Len(got) :
        sent[i].v = Ptr(TInt, <<IntV(-1)>>) /\ got[i].tt = TPtr(TInt) /\ got[i].err = "panic"

(* C2: minimal integer encoding.  The head tagAuxOut writes for an integer *)
(* is the shortest of the 1, 2, 3, 5 and 9 byte forms that can carry it:   *)
(* 1 byte up to 23, 2 below 2^8, 3 below 2^16, 5 below 2^32, 9 otherwise.  *)
C2_MinimalHead ==
    \A i \in 1..Len(sent) :
        sent[i].v.t.k \in IntKinds \cup UintKinds
            => Len(SentBytes(i)) = ShortestHead(HeadArg(sent[i].v))

(* the uint64 255 was written on three bytes *)
C2_Failing ==
    \E i \in 1..Len(sent) :
        sent[i].v = Num("uint64", U(255)) /\ SentBytes(i) = <<25, 0, 255>>

(* C3: canonical determinism.  Two Encode calls on the same mapping write  *)
(* the same bytes, whatever the order its keys were enumerated in.         *)
C3_Deterministic ==
    \A i, j \in 1..Len(sent) :
        sent[i].v.t.k = "map" /\ sent[i].v = sent[j].v => SentBytes(i) = SentBytes(j)

(* map[int]int{1: 1, 2: 2} was written twice, with different bytes *)
C3_Failing ==
    \E i, j \in 1..Len(sent) :
        /\ sent[i].v = Map(TInt, TInt, {<<IntV(1), IntV(1)>>, <<IntV(2), IntV(2)>>})
        /\ sent[j].v = sent[i].v
        /\ SentBytes(i) = <<162, 1, 1, 2, 2>>
        /\ SentBytes(j) = <<162, 2, 2, 1, 1>>

(* C4: canonical order on the encoded bytes.  The entries of an encoded    *)
(* mapping follow its head in the order of the whole encoded bytes of      *)
(* their keys: the shorter first, bytewise among those of one length.      *)
C4_OrderOnEncodedBytes ==
    \A i \in 1..Len(sent) :
        sent[i].v.t.k = "map"
            => SentBytes(i) = MapHead(sent[i].v) \o EntriesInOrder(sent[i].v.m, TRUE)

(* map[int]string{100: "a", -51: "b"} was written with the key -51 (38 32) *)
(* before the key 100 (18 64)                                              *)
C4_Failing ==
    \E i \in 1..Len(sent) :
        /\ sent[i].v = Map(TInt, TString, {<<IntV(100), Str(sA)>>, <<IntV(-51), Str(sB)>>})
        /\ SentBytes(i) = <<162, 56, 50, 97, 98, 24, 100, 97, 97>>

(* C5: text keys.  The entries of an encoded mapping whose keys are text   *)
(* strings are written the shorter key first and bytewise among keys of    *)
(* one length, whatever the enumeration order; {"b":2, "a":1} is written   *)
(* as a2 61 61 01 61 62 02.                                                *)
BA == Map(TString, TInt, {<<Str(sB), IntV(2)>>, <<Str(sA), IntV(1)>>})
C5_TextKeys ==
    \A i \in 1..Len(sent) :
        /\ sent[i].v.t.k = "map" /\ sent[i].v.t.el[1] = TString
              => SentBytes(i) = MapHead(sent[i].v) \o EntriesInOrder(sent[i].v.m, FALSE)
        /\ sent[i].v = BA => SentBytes(i) = <<162, 97, 97, 1, 97, 98, 2>>

(* {"b":2, "a":1}, enumerated "b" first, has been written with "a" first,  *)
(* and so has a mapping with the keys "b" and "aa", enumerated "aa" first  *)
C5_Witness ==
    \E i, j \in 1..Len(sent) :
        /\ sent[i].v = BA
        /\ sent[i].ord = <<Str(sB), Str(sA)>>
        /\ SentBytes(i) = <<162, 97, 97, 1, 97, 98, 2>>
        /\ sent[j].v = Map(TString, TInt, {<<Str(sB), IntV(2)>>, <<Str(sAA), IntV(1)>>})
        /\ sent[j].ord = <<Str(sAA), Str(sB)>>

(* C6: stream ordering.  The n-th Decode call on the stream returns the    *)
(* value the n-th Encode call wrote and consumes exactly the bytes that    *)
(* call wrote.                                                             *)
C6_StreamOrder ==
    \A i \in 1..Len(got) :
        /\ got[i].err = "nil"
        /\ got[i].from = sent[i].from
        /\ got[i].to = sent[i].to
        /\ got[i].val = sent[i].v

(* the first value of the stream came back, and the Decode of the second,  *)
(* a pointer to the string "a", panicked                                   *)
C6_Failing ==
    /\ Len(got) = 2
    /\ got[1].err = "nil" /\ got[1].val = sent[1].v /\ got[1].to = sent[1].to
    /\ sent[2].v = Ptr(TString, <<Str(sA)>>)
    /\ got[2].err = "panic"

(* C7: a Decode call that returned without error consumed exactly the      *)
(* bytes of one complete wire value.                                       *)
C7_ConsumesOneValue ==
    \A i \in 1..Len(got) :
        got[i].err = "nil" => GotItem(i) = Whole(got[i].to)

(* c4 18 2a, the tag 4 on the unsigned 42: Decode returned nil having read *)
(* two of the three bytes                                                  *)
C7_Failing ==
    /\ dec.rin = <<196, 24, 42>>
    /\ Len(got) = 1
    /\ got[1].err = "nil" /\ got[1].from = 0 /\ got[1].to = 2

(* C8: truncated input.  When the stream ends inside the wire value being  *)
(* decoded into a dynamic target, Decode returns the stream's error.       *)
C8_TruncatedIsError ==
    \A i \in 1..Len(got) :
        got[i].tt = TIface /\ GotItem(i).st = "short" => got[i].err = "io"

(* 62 61, a text of two bytes of which one arrived: Decode returned nil    *)
(* and stored the text 61 00                                               *)
C8_Failing ==
    /\ dec.rin = <<98, 97>>
    /\ Len(got) = 1
    /\ got[1].tt = TIface
    /\ got[1].err = "nil"
    /\ got[1].val = Iface(<<Str(<<97, 0>>)>>)

(* C9: an initial byte whose info field is 28, 29 or 30 is never accepted: *)
(* Decode returns an error.                                                *)
C9_ReservedInfoIsError ==
    \A i \in 1..Len(got) :
        got[i].from < Len(dec.rin) /\ InfoOfByte(GotByte(i)) \in 28..30
            => got[i].err # "nil"

(* 1c, major type 0 with info 28: Decode returned nil and stored uint64 0 *)
C9_Failing ==
    /\ dec.rin = <<28>>
    /\ Len(got) = 1
    /\ got[1].err = "nil"
    /\ got[1].val = Iface(<<Num("uint64", Zero8)>>)

(* C10: type mismatch.  When a complete wire value cannot be coerced to    *)
(* the target's type, Decode returns an error: it neither succeeds nor     *)
(* panics.                                                                 *)
C10_MismatchIsError ==
    \A i \in 1..Len(got) :
        GotItem(i).st = "ok" /\ Mismatch(got[i].tt, GotByte(i))
            => got[i].err \notin {"nil", "panic"}

(* f4, the bool false, decoded into an int: Decode panicked *)
C10_Failing ==
    /\ dec.rin = <<244>>
    /\ Len(got) = 1
    /\ got[1].tt = TInt
    /\ got[1].err = "panic"

(***************************************************************************)
(* Helpers of the claims about chosen items (SpecCases).                   *)
(***************************************************************************)
(* the i-th Decode was handed a pointer to a target *)
IntoTarget(i) == got[i].mode = "ptr"

(* the i-th Decode read a whole item that is a definite-length map of at   *)
(* most 23 entries, every key a definite-length text string                *)
RECURSIVE TextKeysFrom(_, _, _), KeepBound(_, _, _, _)
TextKeysFrom(b, p, n) ==
    \/ n = 0
    \/ /\ ItemHead(b, p).mt = cborText
       /\ ItemHead(b, p).info <= 23
       /\ TextKeysFrom(b, Item(b, Item(b, p).end).end, n - 1)

TextKeyMap(i) ==
    /\ GotItem(i).st = "ok"
    /\ TypeOfByte(GotByte(i)) = cborMap
    /\ InfoOfByte(GotByte(i)) <= 23
    /\ TextKeysFrom(dec.rin, got[i].from + 1, InfoOfByte(GotByte(i)))

(* the n entries at p of which those whose key binds to no field of the    *)
(* record type t are left out: [n, bytes]                                  *)
KeepBound(t, b, p, n) ==
    IF n = 0 THEN [n |-> 0, bytes |-> <<>>]
    ELSE LET k == Item(b, p)
             v == Item(b, k.end)
             rest == KeepBound(t, b, v.end, n - 1)
         IN  IF FieldForKey(t, SubSeq(b, p + 2, k.end), 1) = 0 THEN rest
             ELSE [n |-> rest.n + 1, bytes |-> SubSeq(b, p + 1, v.end) \o rest.bytes]

(* the map the i-th Decode read, without its unbound entries *)
BoundOnly(i) ==
    LET kept == KeepBound(got[i].tt, dec.rin, got[i].from + 1, InfoOfByte(GotByte(i)))
    IN  <<160 + kept.n>> \o kept.bytes

(* C11: decoding a map into a record, an entry whose key matches no field  *)
(* is consumed and discarded without an error and the entries after it are *)
(* decoded: the outcome is the one of the map without that entry, and the  *)
(* whole map is consumed.                                                  *)
C11_UnboundDiscarded ==
    \A i \in 1..Len(got) :
        IntoTarget(i) /\ got[i].tt = TRec /\ TextKeyMap(i)
            => LET ref == Decode([dec EXCEPT !.rin = BoundOnly(i), !.pos = 0],
                                 RvPtr(got[i].x))
               IN  /\ got[i].err = ref.err
                   /\ got[i].val = ref.val
                   /\ ref.err = "nil" => got[i].to = GotItem(i).end

(* a2 61 7a f6 61 41 05, the map {"z": null, "A": 5}, decoded into a       *)
(* struct { A int; B string }: Decode panicked on the null of "z" and A    *)
(* was never set                                                           *)
C11_Failing ==
    /\ dec.rin = <<162, 97, 122, 246, 97, 65, 5>>
    /\ Len(got) = 1
    /\ IntoTarget(1) /\ got[1].tt = TRec
    /\ got[1].err = "panic"
    /\ got[1].val.e[1] = IntV(0)

(* a2 61 7a 01 61 41 05, {"z": 1, "A": 5}: "z" was skipped and A set to 5  *)
C11_Skipped ==
    /\ dec.rin = <<162, 97, 122, 1, 97, 65, 5>>
    /\ Len(got) = 1
    /\ IntoTarget(1) /\ got[1].tt = TRec
    /\ got[1].err = "nil"
    /\ got[1].to = 7
    /\ got[1].val.e[1] = IntV(5)


(* C12: Decode with a target that is neither settable nor a non-nil        *)
(* pointer fails with InvalidUnmarshalError, modifies nothing and consumes *)
(* no byte beyond the initial byte.                                        *)
C12_InvalidTarget ==
    \A i \in 1..Len(got) :
        ~IntoTarget(i)
            => /\ got[i].err = "invalid"
               /\ got[i].val = got[i].x
               /\ got[i].to <= got[i].from + 1

(* Decode(nil) on the stream 18 ff: the initial byte was read and building *)
(* the InvalidUnmarshalError panicked                                      *)
C12_Failing ==
    /\ dec.rin = <<24, 255>>
    /\ Len(got) = 1
    /\ got[1].mode = "zero"
    /\ got[1].err = "panic"
    /\ got[1].to = 1

(* Decode(5) on the stream 18 ff: InvalidUnmarshalError after one byte *)
C12_Rejected ==
    /\ dec.rin = <<24, 255>>
    /\ Len(got) = 1
    /\ got[1].mode = "ro" /\ got[1].x = IntV(5)
    /\ got[1].err = "invalid"
    /\ got[1].to = 1


(***************************************************************************)
(* Helpers of the claim about a writer that fails (SpecFail).              *)
(***************************************************************************)
(* the number of writes made before the i-th Encode *)
RECURSIVE WritesBefore(_)
WritesBefore(i) == IF i <= 1 THEN 0 ELSE WritesBefore(i - 1) + sent[i - 1].nw

(* a write of the i-th Encode failed *)
WriteFailed(i) ==
    \E k \in enc.bad : WritesBefore(i) < k /\ k <= WritesBefore(i) + sent[i].nw

(* C13: an Encode during which a write to the output failed, the write of  *)
(* the header of a text string, byte buffer or array included, returns a   *)
(* non-nil error.                                                          *)
C13_WriteFailureReported ==
    \A i \in 1..Len(sent) : WriteFailed(i) => sent[i].err # "nil"

(* Encode([]int{}) on a writer whose first write fails: the only write,    *)
(* the one of the array header, failed and Encode returned nil             *)
C13_Failing ==
    /\ enc.bad = {1}
    /\ Len(sent) = 1
    /\ sent[1].v = Slice(TInt, <<>>)
    /\ sent[1].nw = 1
    /\ sent[1].to = sent[1].from
    /\ sent[1].err = "nil"

(* Encode(uint64(23)) on the same writer: the error of the write is returned *)
C13_Reported ==
    /\ enc.bad = {1}
    /\ Len(sent) = 1
    /\ sent[1].v = Num("uint64", U(23))
    /\ sent[1].nw = 1
    /\ sent[1].err = "err"


(* the i-th Decode read a whole unsigned integer into an integer target *)
UintIntoInteger(i) ==
    /\ IntoTarget(i)
    /\ got[i].tt.k \in IntKinds \cup UintKinds
    /\ GotItem(i).st = "ok"
    /\ TypeOfByte(GotByte(i)) = cborUint

(* 2^bits for bits < 64 *)
PowerOfTwo(bits) == [j \in 1..8 |-> IF j = 8 - bits \div 8 THEN 2 ^ (bits % 8) ELSE 0]

(* the unsigned u is a value of the integer kind k *)
Representable(k, u) ==
    LET bits == IF k \in IntKinds THEN BitSize(k) - 1 ELSE BitSize(k)
    IN  bits = 64 \/ LtU64(u, PowerOfTwo(bits))

(* C14: an unsigned wire integer u decoded into an integer target is       *)
(* stored with Decode returning nil when the target's type holds u, the    *)
(* target then equal to u, and is rejected with an error and the target    *)
(* unchanged otherwise; a signed target never ends up negative.            *)
C14_CoercionExact ==
    \A i \in 1..Len(got) :
        UintIntoInteger(i)
            => LET u == ItemHead(dec.rin, got[i].from).arg
               IN  IF Representable(got[i].tt.k, u)
                   THEN got[i].err = "nil" /\ got[i].val.n = u
                   ELSE got[i].err \notin {"nil", "panic"} /\ got[i].val = got[i].x

(* 1b 80 00 00 00 00 00 00 00, the unsigned 2^63, decoded into an int64:   *)
(* Decode returned nil and the target holds -2^63                          *)
C14_Failing ==
    /\ dec.rin = <<27, 128>> \o Zeros7
    /\ Len(got) = 1
    /\ IntoTarget(1) /\ got[1].tt = Ty("int64")
    /\ got[1].err = "nil"
    /\ got[1].val.n = Pow63
    /\ IsNeg64(got[1].val.n)

(* 18 ff, the unsigned 255, decoded into an int8 holding 5: an error, and  *)
(* the target still holds 5                                                *)
C14_Rejected ==
    /\ dec.rin = <<24, 255>>
    /\ Len(got) = 1
    /\ IntoTarget(1) /\ got[1].x = Num("int8", I(5))
    /\ got[1].err = "err"
    /\ got[1].val = Num("int8", I(5))


(* the i-th Decode read a whole item of the major type mt into a nil       *)
(* interface{} target                                                      *)
DynamicOf(i, mt) ==
    /\ IntoTarget(i)
    /\ got[i].x = NilIface
    /\ GotItem(i).st = "ok"
    /\ TypeOfByte(GotByte(i)) = mt

(* b is a + 1, for big-endian magnitudes, b without leading zero bytes *)
IsSuccessor(a, b) ==
    LET w == Len(a) + 1
        aw == <<0>> \o a
        bw == [j \in 1..w |-> IF j + Len(b) > w THEN b[j + Len(b) - w] ELSE 0]
    IN  /\ Len(b) \in 1..w
        /\ b[1] # 0
        /\ \E j \in 1..w :
              /\ bw[j] = aw[j] + 1
              /\ \A k \in 1..(j - 1) : bw[k] = aw[k]
              /\ \A k \in (j + 1)..w : aw[k] = 255 /\ bw[k] = 0

(* C15: a negative integer of auxiliary value m decodes to the int64       *)
(* -1-m when m <= 2^63-1, and to the bignum -1-m, the negative number of   *)
(* magnitude m+1, when m >= 2^63.                                          *)
C15_BignumThreshold ==
    \A i \in 1..Len(got) :
        DynamicOf(i, cborNegint)
            => LET m == ItemHead(dec.rin, got[i].from).arg
                   v == got[i].val.e[1]
               IN  /\ got[i].err = "nil"
                   /\ Len(got[i].val.e) = 1
                   /\ IF LtU64(m, Pow63)
                      THEN v.t = Ty("int64") /\ IsNeg64(v.n) /\ NotU64(v.n) = m
                      ELSE v.t = TBigInt /\ BigNeg(v) /\ IsSuccessor(m, BigMag(v))

(* 3b 80 00 00 00 00 00 00 00, m = 2^63, decoded to the bignum -(2^63+1) *)
C15_AtThreshold ==
    /\ dec.rin = <<59, 128>> \o Zeros7
    /\ Len(got) = 1
    /\ DynamicOf(1, cborNegint)
    /\ got[1].err = "nil"
    /\ got[1].val.e[1] = Val(TBigInt, <<1, 128, 0, 0, 0, 0, 0, 0, 1>>, <<>>, {})


(* the i-th Decode read, into a nil interface{} target, a whole item that  *)
(* is the tag 2 or 3 on an item that is not an indefinite-length string    *)
BignumTag(i) ==
    /\ DynamicOf(i, cborTag)
    /\ InfoOfByte(GotByte(i)) \in {tagBignum, tagNegBignum}
    /\ ItemHead(dec.rin, got[i].from + 1).info # varFollows

(* mag is the magnitude of the bytes p: p without its leading zero bytes *)
IsMagnitude(p, mag) ==
    /\ Len(mag) <= Len(p)
    /\ mag = SubSeq(p, Len(p) - Len(mag) + 1, Len(p))
    /\ \A j \in 1..(Len(p) - Len(mag)) : p[j] = 0
    /\ mag = <<>> \/ mag[1] # 0

(* C16: the tag 2 on a definite-length byte string decodes to the unsigned *)
(* integer whose big-endian magnitude is the string's bytes, the tag 3 to  *)
(* -1 minus that magnitude; when the wrapped item is not a byte string,    *)
(* Decode returns an error.                                                *)
C16_BignumTags ==
    \A i \in 1..Len(got) :
        BignumTag(i)
            => LET h == ItemHead(dec.rin, got[i].from + 1)
                   p == SubSeq(dec.rin, h.at + 1, GotItem(i).end)
                   v == got[i].val.e[1]
               IN  IF h.mt # cborBytes
                   THEN got[i].err \notin {"nil", "panic"} /\ got[i].val = NilIface
                   ELSE /\ got[i].err = "nil"
                        /\ got[i].to = GotItem(i).end
                        /\ Len(got[i].val.e) = 1
                        /\ v.t = TBigInt
                        /\ IF InfoOfByte(GotByte(i)) = tagBignum
                           THEN ~BigNeg(v) /\ IsMagnitude(p, BigMag(v))
                           ELSE BigNeg(v) /\ \E mag \in {SubSeq(p, j, Len(p)) : j \in 1..(Len(p) + 1)} :
                                    IsMagnitude(p, mag) /\ IsSuccessor(mag, BigMag(v))

(* c2 49 01 00 00 00 00 00 00 00 00 decoded to 2^64 *)
C16_TwoTo64 ==
    /\ dec.rin = <<194, 73, 1, 0>> \o Zeros7
    /\ Len(got) = 1
    /\ BignumTag(1)
    /\ got[1].err = "nil"
    /\ got[1].val.e[1] = Val(TBigInt, <<0, 1, 0, 0, 0, 0, 0, 0, 0, 0>>, <<>>, {})


(* the i-th Decode read a whole indefinite-length string of the major type *)
(* mt, made of definite-length chunks of that type and a break             *)
IndefiniteString(i, mt) ==
    /\ IntoTarget(i)
    /\ GotItem(i).st = "ok"
    /\ GotByte(i) = mt + varFollows

(* the payloads of the chunks at p, up to the break, concatenated *)
RECURSIVE ChunkBytes(_, _)
ChunkBytes(b, p) ==
    IF b[p + 1] = 255 THEN <<>>
    ELSE LET h == ItemHead(b, p)
             e == Payload(b, h).end
         IN  SubSeq(b, h.at + 1, e) \o ChunkBytes(b, e)

(* the definite-length string of those bytes, of at most 23 bytes *)
DefiniteString(i) ==
    LET s == ChunkBytes(dec.rin, got[i].from + 1)
    IN  <<TypeOfByte(GotByte(i)) + Len(s)>> \o s

(* C17: an indefinite-length byte or text string of definite-length chunks *)
(* decodes, into the same target, to what the definite-length string of    *)
(* the concatenation of the chunks decodes to, and is consumed whole.      *)
C17_IndefiniteIdentity ==
    \A i \in 1..Len(got) :
        IndefiniteString(i, cborBytes) \/ IndefiniteString(i, cborText)
            => LET ref == Decode([dec EXCEPT !.rin = DefiniteString(i), !.pos = 0],
                                 RvPtr(got[i].x))
               IN  /\ got[i].err = ref.err
                   /\ got[i].val = ref.val
                   /\ ref.err = "nil" => got[i].to = GotItem(i).end

(* 5f 41 01 41 02 ff decoded into a []byte: the bytes 01 02 *)
C17_TwoChunks ==
    /\ dec.rin = <<95, 65, 1, 65, 2, 255>>
    /\ Len(got) = 1
    /\ IndefiniteString(1, cborBytes)
    /\ got[1].x = Bytes(<<>>)
    /\ got[1].err = "nil"
    /\ got[1].val = Bytes(<<1, 2>>)
    /\ got[1].to = 6


(* the i-th Decode read the head of an indefinite-length string of the     *)
(* major type mt whose first chunk is a whole item of another major type   *)
WrongChunk(i, mt) ==
    /\ IntoTarget(i)
    /\ GotByte(i) = mt + varFollows
    /\ Item(dec.rin, got[i].from + 1).st = "ok"
    /\ dec.rin[got[i].from + 2] # 255
    /\ TypeOfByte(dec.rin[got[i].from + 2]) # mt

(* C18: in an indefinite-length byte (text) string, a chunk whose major    *)
(* type is not byte string (text string) makes Decode return an error      *)
(* instead of a value.                                                     *)
C18_ChunkTypeChecked ==
    \A i \in 1..Len(got) :
        WrongChunk(i, cborBytes) \/ WrongChunk(i, cborText)
            => got[i].err \notin {"nil", "panic"}

(* 7f c6 61 61 ff, a text string whose chunk is the tag 6 on "a", with a   *)
(* handler of tag 6 that yields a string: Decode returned nil and the      *)
(* target holds "a"                                                        *)
C18_Failing ==
    /\ dec.rin = <<127, 198, 97, 97, 255>>
    /\ dec.tags = {TagDecoder(TString, FALSE)}
    /\ Len(got) = 1
    /\ WrongChunk(1, cborText)
    /\ got[1].x = NilIface
    /\ got[1].err = "nil"
    /\ got[1].val = Iface(<<Str(sA)>>)

(* 5f 61 61 ff, a byte string whose chunk is the text "a": an error *)
C18_Rejected ==
    /\ dec.rin = <<95, 97, 97, 255>>
    /\ Len(got) = 1
    /\ WrongChunk(1, cborBytes)
    /\ got[1].err = "err"
    /\ got[1].val = got[1].x


(* the i-th Decode read a whole item that is the tag 6 on some item, a     *)
(* handler of the tag 6 being registered                                   *)
HandlerTag(i) ==
    /\ IntoTarget(i)
    /\ GotItem(i).st = "ok"
    /\ GotByte(i) = cborTag + 6
    /\ \E h \in dec.tags : h.tag = 6

(* the caller's target x once it holds the value v *)
Holding(x, v) ==
    LET dyn == IF v.t = TIface THEN v.e[1] ELSE v
    IN  IF x.t = TIface THEN Iface(<<dyn>>) ELSE dyn

(* C19: for a tag with a registered handler the wrapped value is decoded   *)
(* into the handler's DecodeTarget(), PostDecode is called exactly once    *)
(* and the value it returns is stored in the caller's target; when the     *)
(* inner decode or PostDecode returns an error, Decode returns that error  *)
(* and the caller's target is not modified.                                *)
C19_HandlerApplied ==
    \A i \in 1..Len(got) :
        HandlerTag(i)
            => LET h == CHOOSE h \in dec.tags : h.tag = 6
                   inner == Decode([dec EXCEPT !.pos = got[i].from + 1],
                                   RvPtr(ZeroOf(h.tt)))
               IN  IF inner.err \notin {"nil", "panic"}
                   THEN got[i].err = inner.err /\ got[i].val = got[i].x
                   ELSE IF inner.err = "nil" /\ h.fails
                   THEN got[i].err = "err" /\ got[i].val = got[i].x /\ got[i].posts = 1
                   ELSE /\ got[i].posts = 1
                        /\ got[i].err = "nil"
                        /\ got[i].val = Holding(got[i].x, inner.val)

(* c6 f6, the tag 6 on null, with a handler whose DecodeTarget is an       *)
(* *interface{}: Decode panicked in the inner decode, PostDecode was not   *)
(* called                                                                  *)
C19_Failing ==
    /\ dec.rin = <<198, 246>>
    /\ dec.tags = {TagDecoder(TIface, FALSE)}
    /\ Len(got) = 1
    /\ HandlerTag(1)
    /\ got[1].x = NilIface
    /\ got[1].err = "panic"
    /\ got[1].posts = 0

(* c6 61 61 with a handler whose DecodeTarget is a *string, decoded over   *)
(* an interface{} holding "b": PostDecode was called once and the target   *)
(* holds "a"                                                               *)
C19_Stored ==
    /\ dec.rin = <<198, 97, 97>>
    /\ dec.tags = {TagDecoder(TString, FALSE)}
    /\ Len(got) = 1
    /\ HandlerTag(1)
    /\ got[1].x = Iface(<<Str(sB)>>)
    /\ got[1].err = "nil"
    /\ got[1].posts = 1
    /\ got[1].val = Iface(<<Str(sA)>>)

(* c6 01 with a handler whose PostDecode returns an error, decoded over an *)
(* interface{} holding "b": the error, and the target still holds "b"      *)
C19_PostDecodeError ==
    /\ dec.rin = <<198, 1, 1>>
    /\ dec.tags = {TagDecoder(TIface, TRUE)}
    /\ Len(got) = 1
    /\ HandlerTag(1)
    /\ got[1].x = Iface(<<Str(sB)>>)
    /\ got[1].err = "err"
    /\ got[1].posts = 1
    /\ got[1].val = Iface(<<Str(sB)>>)


(* the i-th Decode read, into a nil interface{} target, a whole item that  *)
(* is a tag other than 2, 3, 4, 5 for which no handler is registered       *)
UnknownTag(i) ==
    /\ DynamicOf(i, cborTag)
    /\ LET code == ItemHead(dec.rin, got[i].from).arg
       IN  /\ code \notin {U(tagBignum), U(tagNegBignum), U(tagDecimal), U(tagBigfloat)}
           /\ \A h \in dec.tags : U(h.tag) # code

(* C20: a tag without a handler is stored as CBORTag{Tag, WrappedObject},  *)
(* Tag the tag code on the wire and WrappedObject the wrapped value        *)
(* decoded as a dynamic value.                                             *)
C20_UnknownTagFallback ==
    \A i \in 1..Len(got) :
        UnknownTag(i)
            => LET h == ItemHead(dec.rin, got[i].from)
                   inner == Decode([dec EXCEPT !.pos = h.at], RvPtr(NilIface))
               IN  IF inner.err \notin {"nil", "panic"}
                   THEN got[i].err = inner.err
                   ELSE /\ got[i].err = "nil"
                        /\ got[i].to = GotItem(i).end
                        /\ got[i].val = Iface(<<CBORTag(h.arg, inner.val)>>)

(* c1 f6, the tag 1 on null: Decode panicked instead of storing            *)
(* CBORTag{1, nil}                                                         *)
C20_Failing ==
    /\ dec.rin = <<193, 246>>
    /\ Len(got) = 1
    /\ UnknownTag(1)
    /\ got[1].err = "panic"
    /\ got[1].val = NilIface

(* d8 64 61 61, the tag 100 on "a": CBORTag{100, "a"} *)
C20_Stored ==
    /\ dec.rin = <<216, 100, 97, 97>>
    /\ Len(got) = 1
    /\ UnknownTag(1)
    /\ got[1].err = "nil"
    /\ got[1].to = 4
    /\ got[1].val = Iface(<<CBORTag(U(100), Iface(<<Str(sA)>>))>>)


(* the i-th Decode read a whole item that is the tag 4 or 5 on some item *)
DecimalTag(i) ==
    /\ IntoTarget(i)
    /\ GotItem(i).st = "ok"
    /\ GotByte(i) \in {cborTag + tagDecimal, cborTag + tagBigfloat}

(* C21: decoding an item tagged 4 or 5 returns no error and leaves the     *)
(* target unmodified, and decoding continues after the tagged item: the    *)
(* next value is read from the byte that follows it.                       *)
C21_DecimalTagsSkipped ==
    \A i \in 1..Len(got) :
        DecimalTag(i)
            => /\ got[i].err = "nil"
               /\ got[i].val = got[i].x
               /\ got[i].to = GotItem(i).end

(* c4 18 2a 02, the tag 4 on the unsigned 42 and then the unsigned 2: the  *)
(* first Decode returned nil after c4 18, the second read 2a, the          *)
(* integer -11, instead of the 2                                           *)
C21_Failing ==
    /\ dec.rin = <<196, 24, 42, 2>>
    /\ Len(got) = 2
    /\ DecimalTag(1)
    /\ got[1].err = "nil" /\ got[1].to = 2
    /\ got[2].x = NilIface
    /\ got[2].err = "nil"
    /\ got[2].val = Iface(<<Num("int64", I(-11))>>)

(* c4 01 02, the tag 4 on the one-byte item 1: skipped whole, and the next *)
(* Decode read the 2                                                       *)
C21_Skipped ==
    /\ dec.rin = <<196, 1, 2>>
    /\ Len(got) = 2
    /\ DecimalTag(1)
    /\ got[1].err = "nil" /\ got[1].to = 2 /\ got[1].val = got[1].x
    /\ got[1].x = Iface(<<Str(sB)>>)
    /\ got[2].x = NilIface
    /\ got[2].val = Iface(<<Num("uint64", U(2))>>)


(* the i-th Decode read the null, f6 *)
NullItem(i) ==
    /\ IntoTarget(i)
    /\ GotByte(i) = cbor7 + cborNull

(* C22: decoding null into a mutable target, a pointer to a dynamic value  *)
(* included, returns no error and leaves the target null, its zero value.  *)
C22_NullDecodes ==
    \A i \in 1..Len(got) :
        NullItem(i)
            => /\ got[i].err = "nil"
               /\ got[i].val = ZeroOf(got[i].tt)
               /\ got[i].to = got[i].from + 1

(* f6 decoded into a nil interface{}: Decode panicked *)
C22_Failing ==
    /\ dec.rin = <<246, 1>>
    /\ Len(got) = 1
    /\ NullItem(1)
    /\ got[1].x = NilIface
    /\ got[1].err = "panic"

(* a1 61 41 f6, {"A": null}, decoded into struct { A int; B string }: the  *)
(* field, a settable location, is set to its zero value                    *)
C22_NullField ==
    /\ dec.rin = <<161, 97, 65, 246>>
    /\ Len(got) = 1
    /\ IntoTarget(1) /\ got[1].tt = TRec
    /\ got[1].err = "nil"
    /\ got[1].val = ZeroOf(TRec)
    /\ got[1].to = 4


(* the item at p, whole, is of a kind the dynamic decoding is stated for:  *)
(* an unsigned integer, a negative integer above -2^63, a definite-length  *)
(* text string, false, true, the tag 2 or 3 on a definite-length byte      *)
(* string, or a definite-length array or map of such items                 *)
RECURSIVE Stated(_, _), StatedFrom(_, _, _), Dynamic(_, _), DynamicElems(_, _, _),
          DynamicPairs(_, _, _)
Stated(b, p) ==
    LET h == ItemHead(b, p)
    IN  /\ Item(b, p).st = "ok"
        /\ CASE h.mt = cborUint -> TRUE
             [] h.mt = cborNegint -> LtU64(h.arg, Pow63)
             [] h.mt = cborText -> h.info <= 23
             [] h.mt = cborArray -> h.info <= 23 /\ StatedFrom(b, h.at, h.info)
             [] h.mt = cborMap -> h.info <= 23 /\ StatedFrom(b, h.at, 2 * h.info)
             [] h.mt = cborTag ->
                    /\ h.info \in {tagBignum, tagNegBignum}
                    /\ ItemHead(b, h.at).mt = cborBytes
                    /\ ItemHead(b, h.at).info <= 23
             [] h.mt = cbor7 -> h.info \in {cborFalse, cborTrue}
             [] OTHER -> FALSE

StatedFrom(b, p, n) == n = 0 \/ (Stated(b, p) /\ StatedFrom(b, Item(b, p).end, n - 1))

(* the dynamic value of the stated item at p *)
Dynamic(b, p) ==
    LET h == ItemHead(b, p)
        e == Item(b, p).end
    IN  CASE h.mt = cborUint -> Num("uint64", h.arg)
          [] h.mt = cborNegint -> Num("int64", NotU64(h.arg))
          [] h.mt = cborText -> Str(SubSeq(b, h.at + 1, e))
          [] h.mt = cborArray -> Slice(TIface, DynamicElems(b, h.at, h.info))
          [] h.mt = cborMap -> Map(TIface, TIface, DynamicPairs(b, h.at, h.info))
          [] h.mt = cborTag ->
                IF h.info = tagBignum THEN BigInt(FALSE, SubSeq(b, h.at + 2, e))
                ELSE BigInt(TRUE, Inc(Normalize(SubSeq(b, h.at + 2, e))))
          [] OTHER -> Bool(h.info = cborTrue)

DynamicElems(b, p, n) ==
    IF n = 0 THEN <<>>
    ELSE <<Iface(<<Dynamic(b, p)>>)>> \o DynamicElems(b, Item(b, p).end, n - 1)

(* one entry per pair; no two keys of the map are equal *)
DynamicPairs(b, p, n) ==
    IF n = 0 THEN {}
    ELSE LET v == Item(b, p).end
         IN  {<<Iface(<<Dynamic(b, p)>>), Iface(<<Dynamic(b, v)>>)>>}
                 \cup DynamicPairs(b, Item(b, v).end, n - 1)

(* C23: decoding into a dynamic target yields the unsigned aux for major   *)
(* type 0, -1-aux for major type 1, a bignum for the tags 2 and 3, a       *)
(* string for text, the sequence of the decoded elements in wire order for *)
(* an array, a dynamic map with one entry per pair for a map, and false or *)
(* true for the info 20 or 21.                                             *)
C23_DynamicDecoding ==
    \A i \in 1..Len(got) :
        IntoTarget(i) /\ got[i].x = NilIface /\ Stated(dec.rin, got[i].from)
            => /\ got[i].err = "nil"
               /\ got[i].val = Iface(<<Dynamic(dec.rin, got[i].from)>>)
               /\ got[i].to = GotItem(i).end

(* a1 81 01 02, the map {[1]: 2}: Decode panicked storing the entry *)
C23_Failing ==
    /\ dec.rin = <<161, 129, 1, 2>>
    /\ Len(got) = 1
    /\ IntoTarget(1) /\ got[1].x = NilIface
    /\ Stated(dec.rin, 0)
    /\ got[1].err = "panic"

(* a2 61 61 01 61 62 82 02 03 decoded to the map {"a": 1, "b": [2, 3]} *)
C23_Vector ==
    /\ dec.rin = <<162, 97, 97, 1, 97, 98, 130, 2, 3>>
    /\ Len(got) = 1
    /\ IntoTarget(1) /\ got[1].x = NilIface
    /\ got[1].err = "nil"
    /\ MapKeys(got[1].val.e[1]) = {Iface(<<Str(sA)>>), Iface(<<Str(sB)>>)}
    /\ MapIndex(got[1].val.e[1], Iface(<<Str(sB)>>)).e[1].e
           = <<Iface(<<Num("uint64", U(2))>>), Iface(<<Num("uint64", U(3))>>)>>


(* the two names are equal when the case of their letters is ignored *)
SameFold(s, t) == [i \in 1..Len(s) |-> Lower(s[i])] = [i \in 1..Len(t) |-> Lower(t[i])]

(* the fields of the record type t whose resolved name is the key, case    *)
(* ignored                                                                 *)
FieldsNamed(t, key) ==
    {j \in 1..Len(t.nm) : fieldname(t.nm[j]).ok /\ SameFold(fieldname(t.nm[j]).name, key)}

(* the item at p alone, decoded into a zero target of the type t *)
Coerced(b, p, t) ==
    Decode([dec EXCEPT !.rin = SubSeq(b, p + 1, Item(b, p).end), !.pos = 0], RvPtr(ZeroOf(t)))

(* every one of the n entries at p has a value its field's type takes, or  *)
(* names no field and has a value a dynamic target takes                   *)
RECURSIVE EntriesCoercible(_, _, _, _), AssignFields(_, _, _, _)
EntriesCoercible(t, b, p, n) ==
    \/ n = 0
    \/ LET k == Item(b, p)
           v == Item(b, k.end)
           fs == FieldsNamed(t, SubSeq(b, p + 2, k.end))
       IN  /\ Cardinality(fs) <= 1
           /\ \A j \in fs : Coerced(b, k.end, t.el[j]).err = "nil"
           /\ fs = {} => Coerced(b, k.end, TIface).err = "nil"
           /\ EntriesCoercible(t, b, v.end, n - 1)

(* the fields of the record e after the n entries at p, each value coerced *)
(* to the type of the field its key names                                  *)
AssignFields(e, b, p, n) ==
    IF n = 0 THEN e
    ELSE LET k == Item(b, p)
             v == Item(b, k.end)
             t == e.t
             fs == FieldsNamed(t, SubSeq(b, p + 2, k.end))
             set == [j \in 1..Len(e.e) |->
                        IF j \in fs THEN Coerced(b, k.end, t.el[j]).val ELSE e.e[j]]
         IN  AssignFields([e EXCEPT !.e = set], b, v.end, n - 1)

(* the i-th Decode read a text-keyed map into a zero record whose fields   *)
(* take the values of the entries that name them                           *)
RecordDecode(i) ==
    /\ IntoTarget(i)
    /\ got[i].tt \in {TRec, TRenamed}
    /\ got[i].x = ZeroOf(got[i].tt)
    /\ TextKeyMap(i)
    /\ EntriesCoercible(got[i].tt, dec.rin, got[i].from + 1, InfoOfByte(GotByte(i)))

(* C24: decoding a map into a record assigns each entry's value, coerced   *)
(* to the field's type, to the field whose resolved name equals the text   *)
(* key when case is ignored, in whatever order the entries arrive.         *)
C24_RecordFields ==
    \A i \in 1..Len(got) :
        RecordDecode(i)
            => /\ got[i].err = "nil"
               /\ got[i].val = AssignFields(got[i].x, dec.rin, got[i].from + 1,
                                            InfoOfByte(GotByte(i)))
               /\ got[i].to = GotItem(i).end

(* a2 61 62 61 61 61 61 05, {"b": "a", "a": 5}, into struct { A int; B     *)
(* string }: the lower-case keys, B's first, set A to 5 and B to "a"       *)
C24_AnyOrderAnyCase ==
    /\ dec.rin = <<162, 97, 98, 97, 97, 97, 97, 5>>
    /\ Len(got) = 1
    /\ RecordDecode(1) /\ got[1].tt = TRec
    /\ got[1].err = "nil"
    /\ got[1].val.e = <<IntV(5), Str(sA)>>

(* a1 61 5a 05, {"Z": 5}, into struct { A int `cbor:"z"` }: the field is   *)
(* found by the name its tag gives it                                      *)
C24_ResolvedName ==
    /\ dec.rin = <<161, 97, 90, 5>>
    /\ Len(got) = 1
    /\ RecordDecode(1) /\ got[1].tt = TRenamed
    /\ got[1].err = "nil"
    /\ got[1].val.e = <<IntV(5)>>


(* the encoded keys of the n entries that start after the first p bytes of *)
(* b, in the order they were written                                       *)
RECURSIVE EmittedKeys(_, _, _)
EmittedKeys(b, p, n) ==
    IF n = 0 THEN <<>>
    ELSE LET k == Item(b, p)
         IN  <<SubSeq(b, p + 1, k.end)>> \o EmittedKeys(b, Item(b, k.end).end, n - 1)

(* the encoded keys the i-th Encode call, of a mapping, wrote *)
KeysOfSent(i) ==
    LET b == SentBytes(i)
    IN  EmittedKeys(b, ItemHead(b, 0).at, Cardinality(sent[i].v.m))

(* an encoded key without its initial byte and length prefix: 1, 2, 3, 5   *)
(* or 9 bytes dropped                                                      *)
PayloadOf(k) == SubSeq(k, ItemHead(k, 0).at + 1, Len(k))

(* the predicate on payloads: the shorter first, then bytewise *)
PayloadBefore(k1, k2) ==
    LET a == PayloadOf(k1)
        b == PayloadOf(k2)
    IN  Len(a) < Len(b) \/ (Len(a) = Len(b) /\ BytesLess(a, b))

(* the encoded forms of the keys of the mapping are pairwise distinct *)
DistinctEncodedKeys(v) == \A k1, k2 \in MapKeys(v) : k1 # k2 => Enc(k1) # Enc(k2)

(* C25: the entries of a mapping are written in the order of the predicate *)
(* on the payloads of the encoded keys, and for a mapping whose keys have  *)
(* pairwise distinct encoded forms the predicate fixes that order: every   *)
(* key written is before the next one under the predicate.                 *)
C25_PayloadOrderFixed ==
    \A i \in 1..Len(sent) :
        sent[i].v.t.k = "map" /\ sent[i].err = "nil" /\ DistinctEncodedKeys(sent[i].v)
            => LET ks == KeysOfSent(i)
               IN  \A j \in 1..(Len(ks) - 1) : PayloadBefore(ks[j], ks[j + 1])

(* no entry is written after one the predicate puts behind it *)
C25_NeverAgainstPredicate ==
    \A i \in 1..Len(sent) :
        sent[i].v.t.k = "map" /\ sent[i].err = "nil"
            => LET ks == KeysOfSent(i)
               IN  \A j \in 1..(Len(ks) - 1) : ~PayloadBefore(ks[j + 1], ks[j])

(* map[int]int{1: 1, 2: 2}, enumerated 2 first, was written with the key 2 *)
(* first: the encoded keys 01 and 02 differ, their payloads are both empty *)
C25_Failing ==
    \E i \in 1..Len(sent) :
        /\ sent[i].v = Map(TInt, TInt, {<<IntV(1), IntV(1)>>, <<IntV(2), IntV(2)>>})
        /\ sent[i].ord = <<IntV(2), IntV(1)>>
        /\ DistinctEncodedKeys(sent[i].v)
        /\ KeysOfSent(i) = <<(<<2>>), (<<1>>)>>
        /\ PayloadOf(<<2>>) = PayloadOf(<<1>>)


(* The bytes of b after the first p are the value v with every count       *)
(* exact: an array header declares the number of elements of v and that    *)
(* many elements follow it, a map header declares the number of pairs of v *)
(* and each key of v follows it once, its value right after it, a record   *)
(* header declares the number of usable fields and each of them follows it *)
(* under its name.  The result is the number of bytes of b up to the end   *)
(* of the value, or -1.                                                    *)
RECURSIVE Counted(_, _, _), CountedElems(_, _, _, _), CountedPairs(_, _, _),
          CountedFields(_, _, _, _)
Counted(b, p, v) ==
    LET h == ItemHead(b, p)
        declares(mt, n) == h.st = "ok" /\ h.mt = mt /\ h.arg = U(n)
    IN  CASE v.t.k \in {"slice", "array"} /\ v.t.el[1].k # "uint8" ->
                IF declares(cborArray, Len(v.e)) THEN CountedElems(b, h.at, v.e, 1) ELSE -1
          [] v.t.k = "map" ->
                IF declares(cborMap, Cardinality(v.m)) THEN CountedPairs(b, h.at, v.m) ELSE -1
          [] v.t.k = "struct" ->
                IF declares(cborMap, Cardinality({i \in 1..Len(v.t.nm) : fieldname(v.t.nm[i]).ok}))
                THEN CountedFields(b, h.at, v, 1)
                ELSE -1
          [] v.t.k \in {"ptr", "interface"} /\ v.e # <<>> -> Counted(b, p, v.e[1])
          [] OTHER -> IF Item(b, p).st = "ok" THEN Item(b, p).end ELSE -1

CountedElems(b, p, e, i) ==
    IF i > Len(e) THEN p
    ELSE LET q == Counted(b, p, e[i])
         IN  IF q < 0 THEN -1 ELSE CountedElems(b, q, e, i + 1)

CountedPairs(b, p, m) ==
    IF m = {} THEN p
    ELSE LET k == Item(b, p)
             here == {pr \in m : k.st = "ok" /\ Enc(pr[1]) = SubSeq(b, p + 1, k.end)}
         IN  IF Cardinality(here) # 1 THEN -1
             ELSE LET pr == CHOOSE x \in here : TRUE
                      q == Counted(b, k.end, pr[2])
                  IN  IF q < 0 THEN -1 ELSE CountedPairs(b, q, m \ {pr})

CountedFields(b, p, v, i) ==
    IF i > Len(v.t.nm) THEN p
    ELSE IF ~fieldname(v.t.nm[i]).ok THEN CountedFields(b, p, v, i + 1)
    ELSE LET k == Item(b, p)
         IN  IF k.st # "ok" \/ SubSeq(b, p + 1, k.end) # Enc(Str(fieldname(v.t.nm[i]).name))
             THEN -1
             ELSE LET q == Counted(b, k.end, v.e[i])
                  IN  IF q < 0 THEN -1 ELSE CountedFields(b, q, v, i + 1)

(* C26: whenever Encode returns without an error, every array, map and     *)
(* record header it wrote declares the number of elements or pairs written *)
(* after it, a record's count is its number of usable fields, and every    *)
(* key of a map is written once, its value right after it.                 *)
C26_CountsExact ==
    \A i \in 1..Len(sent) :
        sent[i].err = "nil" => Counted(enc.out, sent[i].from, sent[i].v) = sent[i].to

(* Encode(map[string][]int{"a": {2, 3}}) on a writer whose third write     *)
(* fails: the header of the value was not written, Encode returned nil and *)
(* the key "a" of the map a1 is followed by 02 03                          *)
C26_Failing ==
    /\ enc.bad = {3}
    /\ Len(sent) = 1
    /\ sent[1].v = Map(TString, TSlice(TInt), {<<Str(sA), Slice(TInt, <<IntV(2), IntV(3)>>)>>})
    /\ sent[1].err = "nil"
    /\ SentBytes(1) = <<161, 97, 97, 2, 3>>

(* the same mapping on a writer that takes every write: a1 61 61 82 02 03  *)
C26_Exact ==
    \E i \in 1..Len(sent) :
        /\ enc.bad = {}
        /\ sent[i].v = Map(TString, TSlice(TInt), {<<Str(sA), Slice(TInt, <<IntV(2), IntV(3)>>)>>})
        /\ sent[i].err = "nil"
        /\ SentBytes(i) = <<161, 97, 97, 130, 2, 3>>


(* where the elements of the whole array at p start, in wire order *)
RECURSIVE DefiniteElems(_, _, _), IndefiniteElems(_, _)
DefiniteElems(b, q, n) ==
    IF n = 0 THEN <<>> ELSE <<q>> \o DefiniteElems(b, Item(b, q).end, n - 1)
IndefiniteElems(b, q) ==
    IF b[q + 1] = 255 THEN <<>> ELSE <<q>> \o IndefiniteElems(b, Item(b, q).end)
ArrayElems(b, p) ==
    LET h == ItemHead(b, p)
    IN  IF h.info = varFollows THEN IndefiniteElems(b, h.at)
        ELSE DefiniteElems(b, h.at, AuxNat(h.arg))

(* the i-th Decode read a whole array, definite or indefinite, of unsigned *)
(* integers                                                                *)
ArrayOfUints(i) ==
    /\ IntoTarget(i)
    /\ GotItem(i).st = "ok"
    /\ TypeOfByte(GotByte(i)) = cborArray
    /\ LET els == ArrayElems(dec.rin, got[i].from)
       IN  \A j \in 1..Len(els) : ItemHead(dec.rin, els[j]).mt = cborUint

(* C27: decoding a wire array of n elements into a fixed-length array of   *)
(* length L writes element i at index i; an n above L never reaches the    *)
(* position L or one beyond it.                                            *)
C27_FixedArrayInBounds ==
    \A i \in 1..Len(got) :
        ArrayOfUints(i) /\ got[i].tt \in {TArray(1, TInt), TArray(2, TInt)}
            => LET els == ArrayElems(dec.rin, got[i].from)
               IN  /\ got[i].err # "panic"
                   /\ Len(got[i].val.e) = got[i].tt.ln
                   /\ \A j \in 1..Len(els) :
                          j <= got[i].tt.ln
                              => got[i].val.e[j] = Num("int", ItemHead(dec.rin, els[j]).arg)

(* 9f 01 02 ff, two elements, into a [1]int: element 0 was written and the *)
(* access of index 1 panicked                                              *)
C27_Failing ==
    /\ dec.rin = <<159, 1, 2, 255>>
    /\ Len(got) = 1
    /\ ArrayOfUints(1) /\ got[1].tt = TArray(1, TInt)
    /\ got[1].err = "panic"
    /\ got[1].val.e = <<IntV(1)>>

(* 81 01, one element, into a [2]int: index 0 holds 1, index 1 is as it was *)
C27_Shorter ==
    /\ dec.rin = <<129, 1>>
    /\ Len(got) = 1
    /\ ArrayOfUints(1) /\ got[1].tt = TArray(2, TInt)
    /\ got[1].err = "nil"
    /\ got[1].val.e = <<IntV(1), IntV(0)>>


(* C28: decoding only reads the registry of tag handlers: no Decode call   *)
(* adds, removes or replaces an entry, so after any sequence of Decode     *)
(* calls the registry is the one there was before.                         *)
C28_RegistryReadOnly == [][dec'.tags = dec.tags]_vars

(* c6 01 01 with a handler registered for the tag 6: the first Decode      *)
(* looked the handler up and called it, a second Decode followed, and the  *)
(* handler is still the one entry of the registry                          *)
C28_HandlerUsed ==
    /\ dec.rin = <<198, 1, 1>>
    /\ Len(got) = 2
    /\ got[1].posts = 1
    /\ got[1].err = "nil" /\ got[2].err = "nil"
    /\ dec.tags = {TagDecoder(TIface, FALSE)}


(* the i-th Decode read a whole array of unsigned integers into a slice of *)
(* int that held the elements got[i].x.e                                   *)
ArrayIntoSlice(i) == ArrayOfUints(i) /\ got[i].tt = TSlice(TInt)

(* the elements of the wire array the i-th Decode read, as int *)
WireInts(i) ==
    LET els == ArrayElems(dec.rin, got[i].from)
    IN  [j \in 1..Len(els) |-> Num("int", ItemHead(dec.rin, els[j]).arg)]

(* C29: after a successful Decode of a wire array of n elements into a     *)
(* slice target, the target holds exactly the n decoded elements in wire   *)
(* order, whatever it held before; after a Decode that failed partway it   *)
(* holds what it held before.                                              *)
C29_SliceIsWireArray ==
    \A i \in 1..Len(got) :
        /\ ArrayIntoSlice(i)
              => got[i].err = "nil" /\ got[i].val.e = WireInts(i)
        /\ IntoTarget(i) /\ got[i].tt = TSlice(TInt) /\ got[i].err # "nil"
              => got[i].val = got[i].x

(* 82 01 02 into a []int that held [9]: Decode returned nil and the slice  *)
(* holds [9, 1, 2]                                                         *)
C29_Failing ==
    /\ dec.rin = <<130, 1, 2>>
    /\ Len(got) = 1
    /\ ArrayIntoSlice(1)
    /\ got[1].x = Slice(TInt, <<IntV(9)>>)
    /\ got[1].err = "nil"
    /\ got[1].val = Slice(TInt, <<IntV(9), IntV(1), IntV(2)>>)

(* 82 01 61 61 into the same slice: the text element failed the Decode and *)
(* the slice still holds [9]                                               *)
C29_FailedPartway ==
    /\ dec.rin = <<130, 1, 97, 97>>
    /\ Len(got) = 1
    /\ IntoTarget(1) /\ got[1].x = Slice(TInt, <<IntV(9)>>)
    /\ got[1].err # "nil"
    /\ got[1].val = got[1].x

(* 82 01 02 into a nil []int: the slice holds [1, 2] *)
C29_FromNil ==
    /\ dec.rin = <<130, 1, 2>>
    /\ Len(got) = 1
    /\ ArrayIntoSlice(1)
    /\ got[1].x = ZeroOf(TSlice(TInt))
    /\ got[1].err = "nil"
    /\ got[1].val = Slice(TInt, <<IntV(1), IntV(2)>>)


(* the i-th Decode read a whole indefinite-length array or map *)
IndefiniteContainer(i) ==
    /\ IntoTarget(i)
    /\ GotItem(i).st = "ok"
    /\ GotByte(i) \in {cborArray + varFollows, cborMap + varFollows}

(* the same container with a count in its head and no break byte *)
AsDefinite(i) ==
    LET b == dec.rin
        p == got[i].from
        n == Len(IndefiniteElems(b, p + 1))
        items == SubSeq(b, p + 2, GotItem(i).end - 1)
    IN  IF TypeOfByte(GotByte(i)) = cborArray THEN <<cborArray + n>> \o items
        ELSE <<cborMap + (n \div 2)>> \o items

(* the bytes of b after the first p start an item in which a break byte    *)
(* stands where an item is due: as the item itself, as an element of a     *)
(* definite-length container, as the item a tag wraps, or as the value of  *)
(* a key of an indefinite-length map                                       *)
RECURSIVE StrayBreak(_, _), StrayBreakIn(_, _, _), StrayBreakUntil(_, _, _, _)
StrayBreak(b, p) ==
    IF p >= Len(b) THEN FALSE
    ELSE IF b[p + 1] = 255 THEN TRUE
    ELSE LET h == ItemHead(b, p)
         IN  IF h.st # "ok" THEN FALSE
             ELSE CASE h.mt = cborArray /\ h.info <= 23 -> StrayBreakIn(b, h.at, h.info)
                    [] h.mt = cborMap /\ h.info <= 23 -> StrayBreakIn(b, h.at, 2 * h.info)
                    [] h.mt = cborArray /\ h.info = varFollows -> StrayBreakUntil(b, h.at, 1, 0)
                    [] h.mt = cborMap /\ h.info = varFollows -> StrayBreakUntil(b, h.at, 2, 0)
                    [] h.mt = cborTag -> StrayBreak(b, h.at)
                    [] OTHER -> FALSE

StrayBreakIn(b, p, n) ==
    /\ n > 0
    /\ \/ StrayBreak(b, p)
       \/ Item(b, p).st = "ok" /\ StrayBreakIn(b, Item(b, p).end, n - 1)

StrayBreakUntil(b, p, per, k) ==
    IF p >= Len(b) THEN FALSE
    ELSE IF b[p + 1] = 255 THEN k % per # 0
    ELSE \/ StrayBreak(b, p)
         \/ Item(b, p).st = "ok" /\ StrayBreakUntil(b, Item(b, p).end, per, k + 1)

(* C30: an indefinite-length array or map of n items and a break decodes,  *)
(* into the same target, to the value of the definite-length one of count  *)
(* n; 9f ff decodes to the empty array; and a break byte is consumed only  *)
(* as the end of the innermost open indefinite-length container: where an  *)
(* item is due it is not taken for one.                                    *)
C30_IndefiniteAsDefinite ==
    \A i \in 1..Len(got) :
        /\ IndefiniteContainer(i)
              => LET ref == Decode([dec EXCEPT !.rin = AsDefinite(i), !.pos = 0],
                                   RvPtr(got[i].x))
                 IN  got[i].err = ref.err /\ got[i].val = ref.val
        /\ IntoTarget(i) /\ got[i].x = NilIface /\ got[i].from = 0
           /\ SubSeq(dec.rin, 1, 2) = <<159, 255>>
              => got[i].err = "nil" /\ got[i].val = Iface(<<Slice(TIface, <<>>)>>)
        /\ IntoTarget(i) /\ StrayBreak(dec.rin, got[i].from)
              => got[i].err # "nil"

(* 81 ff, an array of one element with a break byte where the element is   *)
(* due, into a dynamic target: Decode returned nil with the array [nil],   *)
(* the break byte consumed as the element                                  *)
C30_Failing ==
    /\ dec.rin = <<129, 255>>
    /\ Len(got) = 1
    /\ IntoTarget(1) /\ got[1].x = NilIface
    /\ StrayBreak(dec.rin, 0)
    /\ got[1].err = "nil"
    /\ got[1].to = 2
    /\ got[1].val = Iface(<<Slice(TIface, <<NilIface>>)>>)

(* 9f 01 02 ff into a dynamic target: the array [1, 2], as 82 01 02 gives  *)
C30_SameAsDefinite ==
    /\ dec.rin = <<159, 1, 2, 255>>
    /\ Len(got) = 1
    /\ IndefiniteContainer(1) /\ got[1].x = NilIface
    /\ AsDefinite(1) = <<130, 1, 2>>
    /\ got[1].err = "nil"
    /\ got[1].val.e[1].e = <<Iface(<<Num("uint64", U(1))>>), Iface(<<Num("uint64", U(2))>>)>>

=============================================================================
